---- MODULE Spec2Model ----
(***************************************************************************)
(* Turn-generation pipeline of Spellbound Party: the SSE turn handler      *)
(* (pages/api/games/[gameId]/turns/stream.ts), its three generation        *)
(* adapters, the request/response mailbox (lib/requestStore.ts) and the    *)
(* game store (lib/gameStore.ts).                                          *)
(*                                                                         *)
(* Text is modelled as a sequence of atoms.  An atom is a run of           *)
(* characters the parsers never split: a complete opening tag "<turn>",    *)
(* an opening-tag prefix without its ">" ("<image_prompt"), a closing      *)
(* marker "</turn>", a CDATA delimiter, a blank, a newline, a letter, or   *)
(* one whole <request ...>...</request> element.  The regular expressions  *)
(* and indexOf searches of the source are computed over atoms.  Letter     *)
(* case is not modelled (all tags are lower case).                         *)
(***************************************************************************)
EXTENDS Integers, Sequences, FiniteSets, TLC

(***************************************************************************)
(* Bounds of the model                                                     *)
(***************************************************************************)
MaxDelta == 2
MaxAudioChunks == 2
MaxPartials == 1
MaxSubmits == 2

(***************************************************************************)
(* Atoms                                                                   *)
(***************************************************************************)
Tags == {"turn", "continuation", "image_prompt", "requests"}

OpenFull ==
  [turn |-> "<turn>", continuation |-> "<continuation>",
   image_prompt |-> "<image_prompt>", requests |-> "<requests>"]

OpenPrefix ==
  [turn |-> "<turn", continuation |-> "<continuation",
   image_prompt |-> "<image_prompt", requests |-> "<requests"]

CloseTag ==
  [turn |-> "</turn>", continuation |-> "</continuation>",
   image_prompt |-> "</image_prompt>", requests |-> "</requests>"]

CdataOpen == "<![CDATA["
CdataClose == "]]>"
Blank == " "
Newline == "\n"
Whitespace == {Blank, Newline}

\* The <request> elements a narration may carry, one atom each.
RequestElements ==
  [req_mc      |-> [type |-> "multiple_choice", target |-> "none", question |-> TRUE, choices |-> 2],
   req_yn_p1   |-> [type |-> "yes_no", target |-> "player1", question |-> TRUE, choices |-> 0],
   req_ft_p2   |-> [type |-> "free_text", target |-> "player2", question |-> TRUE, choices |-> 0],
   req_yn_p9   |-> [type |-> "yes_no", target |-> "player9", question |-> TRUE, choices |-> 0],
   req_dice_p1 |-> [type |-> "dice_roll", target |-> "player1", question |-> TRUE, choices |-> 0],
   req_noq     |-> [type |-> "yes_no", target |-> "player1", question |-> FALSE, choices |-> 0],
   req_ft_p0   |-> [type |-> "free_text", target |-> "player0", question |-> TRUE, choices |-> 0],
   req_ft_hero |-> [type |-> "free_text", target |-> "hero", question |-> TRUE, choices |-> 0],
   req_yn_none |-> [type |-> "yes_no", target |-> "none", question |-> TRUE, choices |-> 0],
   req_poll_p1 |-> [type |-> "poll", target |-> "player1", question |-> TRUE, choices |-> 0],
   req_mc_0    |-> [type |-> "multiple_choice", target |-> "none", question |-> TRUE, choices |-> 0],
   req_dice_p9 |-> [type |-> "dice_roll", target |-> "player9", question |-> TRUE, choices |-> 0],
   req_yn_p1_open |-> [type |-> "yes_no", target |-> "player1", question |-> TRUE, choices |-> 0]]

\* The elements written without their closing </request>.
UnclosedElements == {"req_yn_p1_open"}

IsRequestElement(a) == a \in DOMAIN RequestElements

\* The atoms whose last character is ">".
EndsWithGt(a) ==
  \/ a = ">"
  \/ a = CdataClose
  \/ \E t \in Tags : a = OpenFull[t] \/ a = CloseTag[t]
  \/ IsRequestElement(a)

IsOpen(a, tag) == a = OpenFull[tag] \/ a = OpenPrefix[tag]

(***************************************************************************)
(* String helpers: indexOf, slice, trim (0 stands for JavaScript's -1)     *)
(***************************************************************************)
Min(a, b) == IF a < b THEN a ELSE b

IndexOfOpen(source, tag, from) ==
  LET hits == {i \in from..Len(source) : IsOpen(source[i], tag)}
  IN IF hits = {} THEN 0 ELSE CHOOSE i \in hits : \A j \in hits : i <= j

IndexOfGt(source, from) ==
  LET hits == {i \in from..Len(source) : EndsWithGt(source[i])}
  IN IF hits = {} THEN 0 ELSE CHOOSE i \in hits : \A j \in hits : i <= j

IndexOfAtom(source, atom, from) ==
  LET hits == {i \in from..Len(source) : source[i] = atom}
  IN IF hits = {} THEN 0 ELSE CHOOSE i \in hits : \A j \in hits : i <= j

Slice(source, first, last) ==
  IF first > last THEN <<>> ELSE SubSeq(source, first, last)

RECURSIVE TrimStart(_)
TrimStart(s) ==
  IF s # <<>> /\ Head(s) \in Whitespace THEN TrimStart(Tail(s)) ELSE s

RECURSIVE TrimEnd(_)
TrimEnd(s) ==
  IF s # <<>> /\ s[Len(s)] \in Whitespace
  THEN TrimEnd(SubSeq(s, 1, Len(s) - 1))
  ELSE s

Trim(s) == TrimEnd(TrimStart(s))

(***************************************************************************)
(* stream.ts: getTagSegment, stripCdata, parseTag, parseTurnPayload        *)
(***************************************************************************)
NoSegment == [found |-> FALSE, content |-> <<>>, closed |-> FALSE]

\* A getTagSegment that looks for the last closing tag instead of the first.
getTagSegmentLastClose(source, tag) ==
  LET open == IndexOfOpen(source, tag, 1)
      openEnd == IF open = 0 THEN 0 ELSE IndexOfGt(source, open)
      hits == IF openEnd = 0 THEN {}
              ELSE {i \in (openEnd + 1)..Len(source) : source[i] = CloseTag[tag]}
      close == IF hits = {} THEN 0 ELSE CHOOSE i \in hits : \A j \in hits : j <= i
  IN IF open = 0 \/ openEnd = 0 THEN NoSegment
     ELSE IF close = 0
     THEN [found |-> TRUE, content |-> Slice(source, openEnd + 1, Len(source)), closed |-> FALSE]
     ELSE [found |-> TRUE, content |-> Slice(source, openEnd + 1, close - 1), closed |-> TRUE]

getTagSegment(source, tag) ==
  LET open == IndexOfOpen(source, tag, 1)
      openEnd == IF open = 0 THEN 0 ELSE IndexOfGt(source, open)
      close == IF openEnd = 0 THEN 0 ELSE IndexOfAtom(source, CloseTag[tag], openEnd + 1)
  IN IF open = 0 \/ openEnd = 0 THEN NoSegment
     ELSE IF close = 0
     THEN [found |-> TRUE, content |-> Slice(source, openEnd + 1, Len(source)), closed |-> FALSE]
     ELSE [found |-> TRUE, content |-> Slice(source, openEnd + 1, close - 1), closed |-> TRUE]

\* value.replace(/<!\[CDATA\[([\s\S]*?)\]\]>/g, "$1")
RECURSIVE stripCdata(_)
stripCdata(value) ==
  LET open == IndexOfAtom(value, CdataOpen, 1)
      close == IF open = 0 THEN 0 ELSE IndexOfAtom(value, CdataClose, open + 1)
  IN IF open = 0 \/ close = 0 THEN value
     ELSE Slice(value, 1, open - 1) \o Slice(value, open + 1, close - 1)
          \o stripCdata(Slice(value, close + 1, Len(value)))

\* value.replace(/<!\[CDATA\[(.*?)\]\]>/g, "$1"): "." does not match a newline,
\* so a wrapper whose content spans lines is left in place.
RECURSIVE StripCdataSameLine(_)
StripCdataSameLine(value) ==
  LET open == IndexOfAtom(value, CdataOpen, 1)
      close == IF open = 0 THEN 0 ELSE IndexOfAtom(value, CdataClose, open + 1)
      newline == IF open = 0 THEN 0 ELSE IndexOfAtom(value, Newline, open + 1)
  IN IF open = 0 \/ close = 0 THEN value
     ELSE IF newline # 0 /\ newline < close
     THEN Slice(value, 1, open) \o StripCdataSameLine(Slice(value, open + 1, Len(value)))
     ELSE Slice(value, 1, open - 1) \o Slice(value, open + 1, close - 1)
          \o StripCdataSameLine(Slice(value, close + 1, Len(value)))

\* A parseTag whose pattern is built without its tag argument.
parseTagWrongTag(source, tag) ==
  LET seg == getTagSegment(source, "continuation")
  IN IF seg.closed THEN Trim(StripCdataSameLine(seg.content)) ELSE <<>>

\* parseTag returns undefined when the tag does not match; the empty sequence
\* stands for both undefined and "" (callers only test falsiness).
parseTag(source, tag) ==
  LET seg == getTagSegment(source, tag)
  IN IF seg.closed THEN Trim(StripCdataSameLine(seg.content)) ELSE <<>>

\* raw.match(/<turn[\s\S]*?>[\s\S]*?<\/turn>/i)
TurnMatch(raw) ==
  LET open == IndexOfOpen(raw, "turn", 1)
      openEnd == IF open = 0 THEN 0 ELSE IndexOfGt(raw, open)
      close == IF openEnd = 0 THEN 0 ELSE IndexOfAtom(raw, CloseTag["turn"], openEnd + 1)
  IN IF close = 0 THEN <<>> ELSE Slice(raw, open, close)

parseTurnPayload(raw) ==
  LET turnMatch == TurnMatch(raw)
      continuation == parseTag(turnMatch, "continuation")
      imagePrompt == parseTag(turnMatch, "image_prompt")
  IN IF turnMatch = <<>>
     THEN [ok |-> FALSE, error |-> "no_turn_block", continuation |-> <<>>, imagePrompt |-> <<>>]
     ELSE IF continuation = <<>>
     THEN [ok |-> FALSE, error |-> "missing_continuation", continuation |-> <<>>, imagePrompt |-> <<>>]
     ELSE [ok |-> TRUE, error |-> "none", continuation |-> Trim(continuation),
           imagePrompt |-> Trim(imagePrompt)]

(***************************************************************************)
(* stream.ts: mapPlayerReference, parseRequests                            *)
(***************************************************************************)
\* The number K of a reference "playerK"; other references do not match
\* /^player(\d+)$/i.
ReferenceNumber == [player0 |-> 0, player1 |-> 1, player2 |-> 2, player9 |-> 9]

\* A mapPlayerReference that takes K itself as the zero-based index.
mapPlayerReferenceZeroBased(reference, players) ==
  IF reference \notin DOMAIN ReferenceNumber THEN ""
  ELSE LET index == ReferenceNumber[reference]
       IN IF index < 0 \/ index >= Len(players) THEN "" ELSE players[index + 1]

\* The empty string stands for undefined.
mapPlayerReference(reference, players) ==
  IF reference \notin DOMAIN ReferenceNumber THEN ""
  ELSE LET index == ReferenceNumber[reference] - 1
       IN IF index < 0 \/ index >= Len(players) THEN "" ELSE players[index + 1]

\* The request one <request> element yields, or NoRequest when it is skipped
\* (the `continue` branches and the untreated types).  id is the element's
\* position in the block: it stands for the randomUUID() drawn for it.
NoRequest == [id |-> 0, type |-> "none", targetPlayers |-> <<>>, choices |-> 0]

RequestOf(id, element, players) ==
  LET playerId == mapPlayerReference(element.target, players)
  IN IF ~element.question THEN NoRequest
     ELSE IF element.type = "multiple_choice"
     THEN IF element.choices > 0
          THEN [id |-> id, type |-> "multiple_choice", targetPlayers |-> <<>>,
                choices |-> element.choices]
          ELSE NoRequest
     ELSE IF element.type \in {"free_text", "yes_no"}
     THEN IF element.target = "none" \/ playerId = "" THEN NoRequest
          ELSE [id |-> id, type |-> element.type, targetPlayers |-> <<playerId>>,
                choices |-> 0]
     ELSE NoRequest

\* The first element from position i on that has its closing tag (0: none).
RECURSIVE FirstClosed(_, _)
FirstClosed(content, i) ==
  IF i > Len(content) THEN 0
  ELSE IF IsRequestElement(content[i]) /\ content[i] \notin UnclosedElements THEN i
  ELSE FirstClosed(content, i + 1)

\* Where the match of /<request\s+([^>]*)>([\s\S]*?)<\/request>/ that starts at
\* the head of the content ends: at the head itself when it has its closing
\* tag, else at the first later element that has one (0: no match).
MatchEnd(content) ==
  IF ~IsRequestElement(Head(content)) THEN 0 ELSE FirstClosed(content, 1)

\* requests.push, skipped by the `continue` of an element that is dropped.
PushRequest(request, rest) ==
  IF request = NoRequest THEN rest ELSE <<request>> \o rest

\* The loop over matchAll: the attributes and the first <question> are those
\* of the element the match starts at, and the scan resumes after the match.
RECURSIVE RequestsFrom(_, _, _)
RequestsFrom(content, id, players) ==
  IF content = <<>> THEN <<>>
  ELSE IF MatchEnd(content) = 0 THEN RequestsFrom(Tail(content), id + 1, players)
  ELSE PushRequest(RequestOf(id, RequestElements[Head(content)], players),
                   RequestsFrom(SubSeq(content, MatchEnd(content) + 1, Len(content)),
                                id + MatchEnd(content), players))

parseRequests(raw, players) ==
  LET requestsMatch == getTagSegment(raw, "requests")
  IN IF ~requestsMatch.closed THEN <<>>
     ELSE RequestsFrom(requestsMatch.content, 1, players)

\* A wait that expects only the explicit targets, so a vote waits for nobody.
ExpectedTargetsOnly(request, allPlayerIds) == request.targetPlayers

\* requestStore.ts waitForAllRequestResponses: the players a request waits for.
ExpectedPlayerIds(request, allPlayerIds) ==
  IF request.type = "multiple_choice" THEN allPlayerIds ELSE request.targetPlayers

Range(s) == {s[i] : i \in DOMAIN s}

(***************************************************************************)
(* Inputs: the roster, the narrations the language model may stream        *)
(***************************************************************************)
Players == <<"p1", "p2">>
Answers == {"yes", "no"}

NoGame == [exists |-> FALSE, players |-> <<>>, turns |-> <<>>]
OldTurn == [id |-> 1, continuation |-> <<"o">>, imagePrompt |-> <<>>, image |-> ""]

StoredGames ==
  {NoGame, [exists |-> TRUE, players |-> Players, turns |-> <<OldTurn>>]}

DocPlain ==
  <<"<turn>", "<continuation>", "a", "</continuation>", "</turn>">>
DocImage ==
  <<"<turn>", "<continuation>", "a", "</continuation>",
    "<image_prompt>", "b", "</image_prompt>", "</turn>">>
DocNoTurnClose ==
  <<"<turn>", "<continuation>", "a", "</continuation>">>
DocEmptyContinuation ==
  <<"<turn>", "<continuation>", CdataOpen, Blank, CdataClose, "</continuation>", "</turn>">>
DocNoContinuation ==
  <<"<turn>", "<image_prompt>", "b", "</image_prompt>", "</turn>">>
DocLateImage ==
  <<"<image_prompt>", "</image_prompt>", "<turn>", "<continuation>", "a", "</continuation>",
    "<image_prompt>", "b", "</image_prompt>", "</turn>">>
DocBlankCdata ==
  <<"<turn>", "<continuation>", CdataOpen, Newline, CdataClose, "</continuation>", "</turn>">>
DocOneRequest ==
  <<"<turn>", "<continuation>", "a", "</continuation>", "</turn>",
    "<requests>", "req_mc", "</requests>">>
DocTwoRequests ==
  <<"<turn>", "<continuation>", "a", "</continuation>", "</turn>",
    "<requests>", "req_yn_p9", "req_yn_p1", "req_dice_p1", "req_ft_p2", "</requests>">>
DocImageRequest ==
  <<"<turn>", "<continuation>", "a", "</continuation>",
    "<image_prompt>", "b", "</image_prompt>", "</turn>",
    "<requests>", "req_noq", "req_yn_p1", "</requests>">>

Docs ==
  {<<>>, DocPlain, DocImage, DocNoTurnClose, DocEmptyContinuation, DocNoContinuation,
   DocBlankCdata, DocLateImage, DocOneRequest, DocTwoRequests, DocImageRequest}

(***************************************************************************)
(* State                                                                   *)
(***************************************************************************)
VARIABLES
  pc,            \* position of the handler coroutine
  httpStatus,    \* status of a response sent without opening the event channel
  stored,        \* the game record in the store
  game,          \* the handler's copy of the game, read once at the start
  upstream,      \* narration the text adapter has not delivered yet
  rawBuffer,
  imagePrompt,
  imageTask,     \* "null", "pending", "fulfilled", "rejected"
  imagePartials, \* partial previews the image stream has delivered
  finalImage,    \* "" stands for undefined
  parsedTurn,
  audioTask,     \* "null", "pending", "completed", "errored"
  audioChunks,   \* audioChunks.length
  audioText,     \* the text given to the speech adapter
  imageUrl,
  requests,
  responses,
  loops,         \* one waitForRequestResponse loop per request
  mailbox,       \* per request, the hash of responses in insertion order
  submits,
  appendGame,    \* the game appendTurnToGame read
  events,        \* what has been written to the channel
  lateWrites,    \* sendEvent calls made after res.end()
  ended,         \* res.end() has been called
  aborted,       \* abortController.signal.aborted
  caught,        \* the error the handler's catch block received
  audioAlignment,     \* the TV page's accumulated alignment (tv/[gameId].tsx)
  delivered,          \* audio_chunk events the page's EventSource has dispatched
  audioChunksQueue,   \* audioChunksQueue.current, chunks named by their index
  mediaSource,        \* "null", "created", "open" or "ended"
  sourceBuffer,       \* sourceBufferRef.current and the SourceBuffer's state
  hasStartedPlayback,
  currentTime,        \* audio.currentTime, in chunk durations
  sourceState,        \* the page's EventSource: "streaming", "audio_over", "closed"
  streamComplete,
  audioPlaybackComplete,
  audioSafetyTimeout, \* "armed", "fired" or "cleared"
  endedListener,      \* onAudioEnded is registered on the audio element
  retryPending,       \* setTimeout(tryEndStream, 50) is pending
  engineError,        \* the message given to setEngineError, "null" if none
  engineStatus,       \* "running" until runTurnOnce resolves, then "cooldown"
  audioPlaybackTime,  \* the playback time handed to the narration overlay
  streamingNarration, \* the narration text handed to the narration overlay
  redis,              \* gameStore.ts: the stored game under each game code
  calls               \* gameStore.ts: the calls of its functions, each with its locals

\* The state of the stream handler and of its collaborators.
serverVars ==
  <<pc, httpStatus, stored, game, upstream, rawBuffer, imagePrompt, imageTask,
    imagePartials, finalImage, parsedTurn, audioTask, audioChunks, audioText,
    imageUrl,
    requests, responses, loops, mailbox, submits, appendGame, events, lateWrites,
    ended, aborted, caught>>

\* The state of the TV page.
bufferVars == <<audioChunksQueue, mediaSource, sourceBuffer, hasStartedPlayback, currentTime>>

turnVars ==
  <<sourceState, streamComplete, audioPlaybackComplete, audioSafetyTimeout, endedListener,
    retryPending, engineError, engineStatus>>

clientVars ==
  <<audioAlignment, delivered, bufferVars, turnVars, audioPlaybackTime, streamingNarration>>

gameStoreVars == <<redis, calls>>

vars == <<serverVars, clientVars, gameStoreVars>>

\* setAudioAlignment(null): null is written as the alignment without
\* characters, to which the first slice is appended.
NullAlignment ==
  [characters |-> <<>>, characterStartTimesSeconds |-> <<>>,
   characterEndTimesSeconds |-> <<>>]

\* gameStore.ts on its own: the game codes, the calls that can be made, and
\* what the store holds before any call.  generateGameCode draws 4 characters
\* of a 32-character alphabet; two codes stand for them.
MaxCalls == 3

GameCodes == {"AAAA", "BBBB"}

CallIds == 1..MaxCalls

NoStoredGame == [exists |-> FALSE, creator |-> 0, status |-> "none", players |-> <<>>,
                 turns |-> <<>>]

IdleCall == [kind |-> "idle", pc |-> "idle", gameId |-> "", attempts |-> 0,
             game |-> NoStoredGame]

GameStoreIdle ==
  /\ redis = [code \in GameCodes |-> NoStoredGame]
  /\ calls = [o \in CallIds |-> IdleCall]

\* The TV page before a turn runs.
\* sourceBufferRef.current is null.  In a SourceBuffer, held lists the
\* appended chunks that have not been removed, each with the place on the
\* timeline that mode "sequence" gave it.
NoSourceBuffer == [exists |-> FALSE, updating |-> FALSE, held |-> <<>>, timestampOffset |-> 0]

ClientInit ==
  /\ audioAlignment = NullAlignment
  /\ delivered = 0
  /\ audioChunksQueue = <<>>
  /\ mediaSource = "null"
  /\ sourceBuffer = NoSourceBuffer
  /\ hasStartedPlayback = FALSE
  /\ currentTime = 0
  /\ sourceState = "streaming"
  /\ streamComplete = FALSE
  /\ audioPlaybackComplete = FALSE
  /\ audioSafetyTimeout = "armed"
  /\ endedListener = FALSE
  /\ retryPending = FALSE
  /\ engineError = "null"
  /\ engineStatus = "running"
  /\ audioPlaybackTime = 0
  /\ streamingNarration = <<>>

textVars == <<upstream, rawBuffer, imagePrompt, parsedTurn>>
imageVars == <<imageTask, imagePartials, finalImage>>
audioVars == <<audioTask, audioChunks, audioText>>
requestVars == <<requests, responses, loops>>
storeVars == <<stored, appendGame>>
startVars == <<httpStatus, game>>

NoParsedTurn == [ok |-> FALSE, error |-> "not_parsed", continuation |-> <<>>, imagePrompt |-> <<>>]
NoResponses == [defined |-> FALSE, map |-> <<>>]

Init ==
  /\ pc = "init"
  /\ httpStatus = 0
  /\ stored \in StoredGames
  /\ game = NoGame
  /\ upstream \in Docs
  /\ rawBuffer = <<>>
  /\ imagePrompt = <<>>
  /\ imageTask = "null"
  /\ imagePartials = 0
  /\ finalImage = ""
  /\ parsedTurn = NoParsedTurn
  /\ audioTask = "null"
  /\ audioChunks = 0
  /\ audioText = <<>>
  /\ imageUrl = ""
  /\ requests = <<>>
  /\ responses = NoResponses
  /\ loops = <<>>
  /\ mailbox = <<>>
  /\ submits = 0
  /\ appendGame = NoGame
  /\ events = <<>>
  /\ lateWrites = <<>>
  /\ ended = FALSE
  /\ aborted = FALSE
  /\ caught = "none"
  /\ ClientInit
  /\ GameStoreIdle

(***************************************************************************)
(* The event channel                                                       *)
(***************************************************************************)
Ev(type) == [type |-> type]

Types(es) == [i \in DOMAIN es |-> es[i].type]

\* sendEvent for each event of es, in order.  A write after res.end() does not
\* reach the channel.
sendEvent(es) ==
  IF ended
  THEN events' = events /\ lateWrites' = lateWrites \o Types(es)
  ELSE events' = events \o es /\ lateWrites' = lateWrites

Silent == UNCHANGED <<events, lateWrites>>

\* The handler has a continuation that runs before any further I/O event or
\* timer is dispatched: a promise it awaits has already settled.
JoinRejected == pc = "join" /\ imageTask = "rejected"
\* A join that forgets the image task.
JoinResolvedSpeechOnly == pc = "join" /\ audioTask \in {"completed", "errored"}

\* A join that forgets the speech task.
JoinResolvedImageOnly == pc = "join" /\ imageTask \in {"null", "fulfilled"}

JoinResolved ==
  pc = "join" /\ imageTask \in {"null", "fulfilled"} /\ audioTask \in {"completed", "errored"}
LoopStates == {loops[r].state : r \in DOMAIN loops}
CollectRejected == pc = "collecting" /\ "failed" \in LoopStates
CollectResolved == pc = "collecting" /\ LoopStates \subseteq {"done"}
HandlerRunnable ==
  \/ pc \in {"requests"}
  \/ JoinRejected \/ JoinResolved
  \/ CollectRejected \/ CollectResolved

\* An I/O event or timer can be dispatched.
Idle == ~HandlerRunnable

(***************************************************************************)
(* stream.ts handler: start, narration, parse                              *)
(***************************************************************************)
\* A catch block that forgets to report the failure.
CatchSilent(error) ==
  /\ Silent
  /\ caught' = error
  /\ pc' = "error_flush"

\* The catch block of the handler (lines 467-474).
Catch(error) ==
  /\ sendEvent(<<Ev("turn_error")>>)
  /\ caught' = error
  /\ pc' = "error_flush"

Status(status) == [type |-> "turn_status", status |-> status]

\* startImageGeneration (lines 263-293): what it writes and the task it leaves.
StartImageEvents(task, prompt) ==
  IF task # "null" THEN <<>>
  ELSE <<[type |-> "image_prompt", prompt |-> prompt], Status("image")>>

\* A launch that is announced but left for later.
StartImageTaskDeferred(task) == task

StartImageTask(task) == IF task # "null" THEN task ELSE "pending"

\* Lines 185-250: the method, gameId and game checks, then the channel is opened.
HandlerStart ==
  /\ pc = "init"
  /\ \E method \in {"GET", "POST"}, gameIdOk \in BOOLEAN :
       IF method # "GET"
       THEN pc' = "rejected" /\ httpStatus' = 405 /\ game' = game /\ Silent
       ELSE IF ~gameIdOk
       THEN pc' = "rejected" /\ httpStatus' = 400 /\ game' = game /\ Silent
       ELSE IF ~stored.exists
       THEN pc' = "rejected" /\ httpStatus' = 404 /\ game' = game /\ Silent
       ELSE /\ pc' = "preparing"
            /\ httpStatus' = 200
            /\ game' = stored
            /\ sendEvent(<<Status("preparing")>>)
  /\ UNCHANGED <<textVars, imageVars, audioVars, imageUrl, requestVars, mailbox, submits,
                 storeVars, ended, aborted, caught>>
  /\ UNCHANGED <<clientVars, gameStoreVars>>

\* Lines 252-257: the system prompt is rendered and the text adapter started.
PromptRendered ==
  /\ pc = "preparing" /\ Idle
  /\ sendEvent(<<Status("narration")>>)
  /\ pc' = "narrating"
  /\ UNCHANGED <<startVars, textVars, imageVars, audioVars, imageUrl, requestVars, mailbox,
                 submits, storeVars, ended, aborted, caught>>
  /\ UNCHANGED <<clientVars, gameStoreVars>>

PromptFailed ==
  /\ pc = "preparing" /\ Idle
  /\ Catch("prompt")
  /\ UNCHANGED <<startVars, textVars, imageVars, audioVars, imageUrl, requestVars, mailbox,
                 submits, storeVars, ended, aborted>>
  /\ UNCHANGED <<clientVars, gameStoreVars>>

\* An onChunk that keeps only the latest delta (rawBuffer = chunk).
TextDeltaOverwrite ==
  /\ pc = "narrating" /\ Idle /\ ~aborted /\ upstream # <<>>
  /\ \E k \in 1..Min(MaxDelta, Len(upstream)) :
       /\ upstream' = SubSeq(upstream, k + 1, Len(upstream))
       /\ rawBuffer' = SubSeq(upstream, 1, k)
  /\ Silent
  /\ UNCHANGED <<pc, startVars, imagePrompt, parsedTurn, imageVars, audioVars, imageUrl,
                 requestVars, mailbox, submits, storeVars, ended, aborted, caught>>
  /\ UNCHANGED <<clientVars, gameStoreVars>>

\* onChunk (lines 302-316) for one delta of the narration stream.
TextDelta ==
  /\ pc = "narrating" /\ Idle /\ ~aborted /\ upstream # <<>>
  /\ \E k \in 1..Min(MaxDelta, Len(upstream)) :
       LET buffer == rawBuffer \o SubSeq(upstream, 1, k)
           promptSegment == getTagSegment(buffer, "image_prompt")
           detected == IF imagePrompt = <<>> /\ promptSegment.closed
                       THEN Trim(stripCdata(promptSegment.content))
                       ELSE imagePrompt
           launch == imagePrompt = <<>> /\ detected # <<>>
       IN /\ upstream' = SubSeq(upstream, k + 1, Len(upstream))
          /\ rawBuffer' = buffer
          /\ imagePrompt' = detected
          /\ imageTask' = IF launch THEN StartImageTask(imageTask) ELSE imageTask
          /\ sendEvent(IF launch THEN StartImageEvents(imageTask, detected) ELSE <<>>)
  /\ UNCHANGED <<pc, startVars, parsedTurn, imagePartials, finalImage, audioVars, imageUrl,
                 requestVars, mailbox, submits, storeVars, ended, aborted, caught>>
  /\ UNCHANGED <<clientVars, gameStoreVars>>

\* A speech adapter given the raw buffer instead of the parsed continuation.
SpeechTextRaw(parsed) == rawBuffer

\* Line 333: the text given to streamTurnAudio.
SpeechText(parsed) == parsed.continuation

\* A handler without the fallback of lines 364-368.
LateStartNever(parsed) == FALSE

\* Line 364: the final parse has an image prompt and onChunk set none.
LateStart(parsed) == parsed.imagePrompt # <<>> /\ imagePrompt = <<>>

\* Lines 319-368: the narration stream has ended; the buffer is parsed, the
\* speech adapter started and, if needed, the image adapter started late.
\* After an abort the stream may end early.
TextEnd ==
  /\ pc = "narrating" /\ Idle /\ (upstream = <<>> \/ aborted)
  /\ LET parsed == parseTurnPayload(rawBuffer)
         late == LateStart(parsed)
     IN IF ~parsed.ok
        THEN /\ Catch(parsed.error)
             /\ UNCHANGED <<parsedTurn, audioTask, audioText, imagePrompt, imageTask>>
        ELSE /\ parsedTurn' = parsed
             /\ audioTask' = "pending"
             /\ audioText' = SpeechText(parsed)
             /\ imagePrompt' = IF late THEN parsed.imagePrompt ELSE imagePrompt
             /\ imageTask' = IF late THEN StartImageTask(imageTask) ELSE imageTask
             /\ sendEvent(<<[type |-> "continuation_complete", text |-> parsed.continuation],
                            Status("audio")>>
                          \o (IF late THEN StartImageEvents(imageTask, parsed.imagePrompt)
                              ELSE <<>>))
             /\ pc' = "join"
             /\ caught' = caught
  /\ UNCHANGED <<startVars, upstream, rawBuffer, imagePartials, finalImage, audioChunks,
                 imageUrl, requestVars, mailbox, submits, storeVars, ended, aborted>>
  /\ UNCHANGED <<clientVars, gameStoreVars>>

\* streamTurnText rejects: the client cannot be built, the stream reports an
\* error, or the stream was aborted.
TextFail ==
  /\ pc = "narrating" /\ Idle
  /\ Catch("text")
  /\ UNCHANGED <<startVars, textVars, imageVars, audioVars, imageUrl, requestVars, mailbox,
                 submits, storeVars, ended, aborted>>
  /\ UNCHANGED <<clientVars, gameStoreVars>>

(***************************************************************************)
(* imageGeneration.ts streamTurnImage with the handler's onEvent and catch *)
(***************************************************************************)
ImagePartial ==
  /\ imageTask = "pending" /\ Idle /\ ~aborted
  /\ finalImage = "" /\ imagePartials < MaxPartials
  /\ imagePartials' = imagePartials + 1
  /\ sendEvent(<<[type |-> "image_partial", index |-> imagePartials]>>)
  /\ UNCHANGED <<pc, startVars, textVars, imageTask, finalImage, audioVars, imageUrl,
                 requestVars, mailbox, submits, storeVars, ended, aborted, caught>>
  /\ UNCHANGED <<clientVars, gameStoreVars>>

ImageCompleted ==
  /\ imageTask = "pending" /\ Idle /\ ~aborted
  /\ finalImage = ""
  /\ finalImage' = "img"
  /\ sendEvent(<<Ev("image_complete")>>)
  /\ UNCHANGED <<pc, startVars, textVars, imageTask, imagePartials, audioVars, imageUrl,
                 requestVars, mailbox, submits, storeVars, ended, aborted, caught>>
  /\ UNCHANGED <<clientVars, gameStoreVars>>

\* A catch handler that reports the failure and never settles the task.
ImageRejectedUnsettled ==
  /\ imageTask' = "unsettled"
  /\ sendEvent(<<Ev("turn_error")>>)

\* What the task's catch handler (lines 288-292) does when streamTurnImage rejects.
ImageRejected ==
  /\ imageTask' = "rejected"
  /\ sendEvent(<<Ev("turn_error")>>)

\* The image stream ends: streamTurnImage returns the final image, or throws
\* when no completed event was delivered.
ImageEnd ==
  /\ imageTask = "pending" /\ Idle
  /\ IF finalImage # "" THEN imageTask' = "fulfilled" /\ Silent ELSE ImageRejected
  /\ UNCHANGED <<pc, startVars, textVars, imagePartials, finalImage, audioVars, imageUrl,
                 requestVars, mailbox, submits, storeVars, ended, aborted, caught>>
  /\ UNCHANGED <<clientVars, gameStoreVars>>

\* The image client cannot be built, the request fails or the stream throws.
ImageFail ==
  /\ imageTask = "pending" /\ Idle
  /\ ImageRejected
  /\ UNCHANGED <<pc, startVars, textVars, imagePartials, finalImage, audioVars, imageUrl,
                 requestVars, mailbox, submits, storeVars, ended, aborted, caught>>
  /\ UNCHANGED <<clientVars, gameStoreVars>>

(***************************************************************************)
(* audioGeneration.ts streamTurnAudio with the handler's onChunk, then and *)
(* catch (lines 332-362)                                                   *)
(***************************************************************************)
AudioResolved ==
  /\ audioTask' = "completed"
  /\ audioChunks' = audioChunks
  /\ sendEvent(<<[type |-> "audio_complete", totalChunks |-> audioChunks]>>)

\* A catch handler written like the image task's: it also reports a turn failure.
AudioRejectedFatal ==
  /\ audioTask' = "errored"
  /\ audioChunks' = audioChunks
  /\ sendEvent(<<Ev("audio_error"), Ev("turn_error")>>)

AudioRejected ==
  /\ audioTask' = "errored"
  /\ audioChunks' = audioChunks
  /\ sendEvent(<<Ev("audio_error")>>)

\* An onChunk that tags the chunk with the length after the push.
AudioChunkOneBased ==
  /\ audioTask = "pending" /\ Idle
  /\ audioChunks < MaxAudioChunks
  /\ IF aborted THEN AudioResolved
     ELSE /\ audioChunks' = audioChunks + 1
          /\ audioTask' = audioTask
          /\ sendEvent(<<[type |-> "audio_chunk", index |-> audioChunks + 1]>>)
  /\ UNCHANGED <<pc, startVars, textVars, imageVars, audioText, imageUrl, requestVars, mailbox,
                 submits, storeVars, ended, aborted, caught>>
  /\ UNCHANGED <<clientVars, gameStoreVars>>

\* One unit of the speech stream; the loop breaks when the signal is aborted.
AudioChunk ==
  /\ audioTask = "pending" /\ Idle
  /\ audioChunks < MaxAudioChunks
  /\ IF aborted THEN AudioResolved
     ELSE /\ audioChunks' = audioChunks + 1
          /\ audioTask' = audioTask
          /\ sendEvent(<<[type |-> "audio_chunk", index |-> audioChunks]>>)
  /\ UNCHANGED <<pc, startVars, textVars, imageVars, audioText, imageUrl, requestVars, mailbox,
                 submits, storeVars, ended, aborted, caught>>
  /\ UNCHANGED <<clientVars, gameStoreVars>>

AudioEnd ==
  /\ audioTask = "pending" /\ Idle
  /\ AudioResolved
  /\ UNCHANGED <<pc, startVars, textVars, imageVars, audioText, imageUrl, requestVars, mailbox,
                 submits, storeVars, ended, aborted, caught>>
  /\ UNCHANGED <<clientVars, gameStoreVars>>

\* The speech adapter fails: outside its try block (the client cannot be built,
\* before any chunk) or inside it, where an error is swallowed once the signal
\* is aborted.
AudioFail ==
  /\ audioTask = "pending" /\ Idle
  /\ \E inTry \in BOOLEAN :
       /\ ~inTry => audioChunks = 0
       /\ IF inTry /\ aborted THEN AudioResolved ELSE AudioRejected
  /\ UNCHANGED <<pc, startVars, textVars, imageVars, audioText, imageUrl, requestVars, mailbox,
                 submits, storeVars, ended, aborted, caught>>
  /\ UNCHANGED <<clientVars, gameStoreVars>>

(***************************************************************************)
(* stream.ts handler: the artifact join, upload, requests, persistence     *)
(***************************************************************************)
\* Lines 373-376: Promise.all rejects as soon as the image task has rejected.
JoinReject ==
  /\ JoinRejected
  /\ Catch("image")
  /\ UNCHANGED <<startVars, textVars, imageVars, audioVars, imageUrl, requestVars, mailbox,
                 submits, storeVars, ended, aborted>>
  /\ UNCHANGED <<clientVars, gameStoreVars>>

\* Lines 373-401: both tasks have settled; the image, if any, is uploaded.
JoinResolve ==
  /\ JoinResolved
  /\ finalImage' = IF imageTask = "fulfilled" /\ finalImage = "" THEN "img" ELSE finalImage
  /\ pc' = IF finalImage' # "" THEN "uploading" ELSE "requests"
  /\ Silent
  /\ UNCHANGED <<startVars, textVars, imageTask, imagePartials, audioVars, imageUrl,
                 requestVars, mailbox, submits, storeVars, ended, aborted, caught>>
  /\ UNCHANGED <<clientVars, gameStoreVars>>

\* Lines 388-401: uploadTurnImage returns a URL or throws; a failed upload is
\* swallowed and leaves the turn without an image.
Upload ==
  /\ pc = "uploading" /\ Idle
  /\ \E ok \in BOOLEAN : imageUrl' = IF ok THEN "url" ELSE ""
  /\ pc' = "requests"
  /\ Silent
  /\ UNCHANGED <<startVars, textVars, imageVars, audioVars, requestVars, mailbox, submits,
                 storeVars, ended, aborted, caught>>
  /\ UNCHANGED <<clientVars, gameStoreVars>>

NewLoop == [state |-> "idle", collected |-> <<>>]

\* Lines 404-413: the requests are parsed and published.
RequestsParsed ==
  /\ pc = "requests"
  /\ requests' = parseRequests(rawBuffer, game.players)
  /\ IF requests' # <<>>
     THEN /\ sendEvent(<<[type |-> "requests_received", requests |-> requests']>>)
          /\ loops' = [i \in DOMAIN requests' |-> NewLoop]
          /\ mailbox' = [i \in DOMAIN requests' |-> <<>>]
          /\ pc' = "creating_keys"
     ELSE /\ Silent
          /\ UNCHANGED <<loops, mailbox>>
          /\ pc' = "append_read"
  /\ UNCHANGED <<startVars, textVars, imageVars, audioVars, imageUrl, responses, submits,
                 storeVars, ended, aborted, caught>>
  /\ UNCHANGED <<clientVars, gameStoreVars>>

\* The catch block of the collection phase (lines 440-445).
RequestError ==
  /\ sendEvent(<<Ev("request_error")>>)
  /\ pc' = "append_read"

\* Line 417: createRequestKeys; then waitForAllRequestResponses starts one
\* waitForRequestResponse loop per request.
CreateKeys ==
  /\ pc = "creating_keys" /\ Idle
  /\ \E ok \in BOOLEAN :
       IF ok
       THEN /\ loops' = [i \in DOMAIN loops |-> [loops[i] EXCEPT !.state = "polling"]]
            /\ pc' = "collecting"
            /\ Silent
       ELSE RequestError /\ loops' = loops
  /\ UNCHANGED <<startVars, textVars, imageVars, audioVars, imageUrl, requests, responses,
                 mailbox, submits, storeVars, ended, aborted, caught>>
  /\ UNCHANGED <<clientVars, gameStoreVars>>

PlayersOf(entries) == {entries[i].playerId : i \in DOMAIN entries}

\* requestStore.ts waitForRequestResponse, one iteration of the loop
\* (lines 107-132) of request i.
Collect(request, loop, hash) ==
  LET IsNew(entry) == entry.playerId \notin PlayersOf(loop.collected)
      fresh == SelectSeq(hash, IsNew)
      collected == loop.collected \o fresh
      expected == ExpectedPlayerIds(request, game.players)
      allResponded == \A id \in Range(expected) : id \in PlayersOf(collected)
  IN [fresh |-> fresh,
      loop |-> [state |-> IF allResponded THEN "done" ELSE "polling",
                collected |-> collected]]

ResponseEvents(requestId, fresh) ==
  [k \in DOMAIN fresh |->
     [type |-> "request_response", requestId |-> requestId,
      playerId |-> fresh[k].playerId, response |-> fresh[k].response]]

Poll(i) ==
  /\ i \in DOMAIN loops /\ loops[i].state = "polling" /\ Idle
  /\ LET result == Collect(requests[i], loops[i], mailbox[i])
     IN /\ loops' = [loops EXCEPT ![i] = result.loop]
        /\ sendEvent(ResponseEvents(requests[i].id, result.fresh))
  /\ UNCHANGED <<pc, startVars, textVars, imageVars, audioVars, imageUrl, requests,
                 responses, mailbox, submits, storeVars, ended, aborted, caught>>
  /\ UNCHANGED <<clientVars, gameStoreVars>>

\* The mailbox read of one loop throws.
PollFail(i) ==
  /\ i \in DOMAIN loops /\ loops[i].state = "polling" /\ Idle
  /\ loops' = [loops EXCEPT ![i].state = "failed"]
  /\ Silent
  /\ UNCHANGED <<pc, startVars, textVars, imageVars, audioVars, imageUrl, requests,
                 responses, mailbox, submits, storeVars, ended, aborted, caught>>
  /\ UNCHANGED <<clientVars, gameStoreVars>>

\* Lines 420-439: every loop has returned.
CollectResolve ==
  /\ CollectResolved
  /\ responses' = [defined |-> TRUE, map |-> [i \in DOMAIN loops |-> loops[i].collected]]
  /\ sendEvent(<<[type |-> "requests_complete", responses |-> responses'.map]>>)
  /\ pc' = "cleanup"
  /\ UNCHANGED <<startVars, textVars, imageVars, audioVars, imageUrl, requests, loops,
                 mailbox, submits, storeVars, ended, aborted, caught>>
  /\ UNCHANGED <<clientVars, gameStoreVars>>

\* Lines 440-445: one loop has thrown; the other loops keep running.
CollectReject ==
  /\ CollectRejected
  /\ RequestError
  /\ UNCHANGED <<startVars, textVars, imageVars, audioVars, imageUrl, requestVars, mailbox,
                 submits, storeVars, ended, aborted, caught>>
  /\ UNCHANGED <<clientVars, gameStoreVars>>

\* Line 439: cleanupRequestKeys deletes the request keys, or throws.
Cleanup ==
  /\ pc = "cleanup" /\ Idle
  /\ \E ok \in BOOLEAN :
       IF ok
       THEN /\ mailbox' = [i \in DOMAIN mailbox |-> <<>>]
            /\ pc' = "append_read"
            /\ Silent
       ELSE RequestError /\ mailbox' = mailbox
  /\ UNCHANGED <<startVars, textVars, imageVars, audioVars, imageUrl, requestVars, submits,
                 storeVars, ended, aborted, caught>>
  /\ UNCHANGED <<clientVars, gameStoreVars>>

\* A mailbox that keeps every submission instead of one field per player.
HSETAppend(hash, playerId, response) ==
  Append(hash, [playerId |-> playerId, response |-> response])

\* requestStore.ts submitRequestResponse: HSET of the player's field.
HSET(hash, playerId, response) ==
  IF playerId \in PlayersOf(hash)
  THEN [k \in DOMAIN hash |->
          IF hash[k].playerId = playerId
          THEN [playerId |-> playerId, response |-> response]
          ELSE hash[k]]
  ELSE Append(hash, [playerId |-> playerId, response |-> response])

\* The respond endpoint: a player of the game answers a published request.
Submit(playerId, i, response) ==
  /\ i \in DOMAIN mailbox /\ Idle
  /\ playerId \in Range(stored.players)
  /\ submits < MaxSubmits
  /\ submits' = submits + 1
  /\ mailbox' = [mailbox EXCEPT ![i] = HSET(@, playerId, response)]
  /\ Silent
  /\ UNCHANGED <<pc, startVars, textVars, imageVars, audioVars, imageUrl, requestVars,
                 storeVars, ended, aborted, caught>>
  /\ UNCHANGED <<clientVars, gameStoreVars>>

\* gameStore.ts appendTurnToGame: the turn it builds from the payload; the
\* id stands for randomUUID().
NewTurn(current, payload) ==
  [id |-> Len(current.turns) + 1,
   continuation |-> payload.continuation,
   imagePrompt |-> payload.imagePrompt,
   image |-> payload.image]

\* The payload the handler passes (lines 449-455).
TurnPayload ==
  [continuation |-> parsedTurn.continuation,
   imagePrompt |-> parsedTurn.imagePrompt,
   image |-> imageUrl,
   requests |-> requests,
   responses |-> responses]

\* appendTurnToGame, getGame (gameStore.ts lines 100-103).
AppendRead ==
  /\ pc = "append_read" /\ Idle
  /\ \E ok \in BOOLEAN :
       IF ok /\ stored.exists
       THEN appendGame' = stored /\ pc' = "append_write" /\ Silent /\ caught' = caught
       ELSE appendGame' = appendGame /\ Catch("store")
  /\ UNCHANGED <<startVars, textVars, imageVars, audioVars, imageUrl, requestVars, mailbox,
                 submits, stored, ended, aborted>>
  /\ UNCHANGED <<clientVars, gameStoreVars>>

\* appendTurnToGame, persistGame (gameStore.ts lines 105-118), then lines
\* 457-459 of the handler.
AppendWrite ==
  /\ pc = "append_write" /\ Idle
  /\ \E ok \in BOOLEAN :
       IF ok
       THEN LET turn == NewTurn(appendGame, TurnPayload)
            IN /\ stored' = [appendGame EXCEPT !.turns = Append(@, turn)]
               /\ sendEvent(<<[type |-> "turn_complete", turn |-> turn],
                              Ev("done")>>)
               /\ pc' = "flush"
               /\ caught' = caught
       ELSE stored' = stored /\ Catch("store")
  /\ UNCHANGED <<startVars, textVars, imageVars, audioVars, imageUrl, requestVars, mailbox,
                 submits, appendGame, ended, aborted>>
  /\ UNCHANGED <<clientVars, gameStoreVars>>

\* Lines 475-480: after the flush delay the timers are cleared and the channel
\* is closed.
Finally ==
  /\ pc \in {"flush", "error_flush"} /\ Idle
  /\ ended' = TRUE
  /\ pc' = "closed"
  /\ Silent
  /\ UNCHANGED <<startVars, textVars, imageVars, audioVars, imageUrl, requestVars, mailbox,
                 submits, storeVars, aborted, caught>>
  /\ UNCHANGED <<clientVars, gameStoreVars>>

\* Lines 242-246: the request's close event.
ClientClose ==
  /\ pc \notin {"init", "rejected"} /\ Idle
  /\ ~aborted
  /\ aborted' = TRUE
  /\ Silent
  /\ UNCHANGED <<pc, startVars, textVars, imageVars, audioVars, imageUrl, requestVars,
                 mailbox, submits, storeVars, ended, caught>>
  /\ UNCHANGED <<clientVars, gameStoreVars>>

Next ==
  \/ HandlerStart
  \/ PromptRendered
  \/ PromptFailed
  \/ TextDelta
  \/ TextEnd
  \/ TextFail
  \/ ImagePartial
  \/ ImageCompleted
  \/ ImageEnd
  \/ ImageFail
  \/ AudioChunk
  \/ AudioEnd
  \/ AudioFail
  \/ JoinReject
  \/ JoinResolve
  \/ Upload
  \/ RequestsParsed
  \/ CreateKeys
  \/ \E i \in DOMAIN loops : Poll(i)
  \/ \E i \in DOMAIN loops : PollFail(i)
  \/ CollectResolve
  \/ CollectReject
  \/ Cleanup
  \/ \E p \in Range(Players), i \in DOMAIN mailbox, a \in Answers : Submit(p, i, a)
  \/ AppendRead
  \/ AppendWrite
  \/ Finally
  \/ ClientClose

Spec == Init /\ [][Next]_vars

(***************************************************************************)
(* Specifications with the fairness the event loop gives: a runnable       *)
(* continuation runs, a timer fires, and every adapter stream and every    *)
(* collaborator call eventually ends or fails.  Nothing obliges a player   *)
(* to answer, a client to disconnect or a call to fail.                    *)
(***************************************************************************)
HandlerSteps ==
  HandlerStart \/ JoinReject \/ JoinResolve \/ RequestsParsed \/ CollectResolve
  \/ CollectReject \/ Finally

\* TextFail is listed before TextEnd: it is enabled wherever TextEnd is.
TextStream == PromptRendered \/ PromptFailed \/ TextDelta \/ TextFail \/ TextEnd

ImageStream == ImagePartial \/ ImageCompleted \/ ImageEnd \/ ImageFail

AudioStream == AudioChunk \/ AudioEnd \/ AudioFail

CollaboratorCalls == Upload \/ CreateKeys \/ Cleanup \/ AppendRead \/ AppendWrite

\* Every step of the model other than a Poll that finds nothing new extends the
\* channel or moves a task forward, so no behaviour takes infinitely many of
\* them: weak fairness of their disjunction says that the event loop does not
\* stop while one of them can run.
Progress ==
  \/ HandlerSteps
  \/ TextStream
  \/ ImageStream
  \/ AudioStream
  \/ CollaboratorCalls
  \/ \E i \in DOMAIN loops : Poll(i)

Fairness == WF_vars(Progress)

\* Runs whose narration carries no request that parseRequests keeps.
InitNoRequests == Init /\ parseRequests(upstream, Players) = <<>>

NextArtifacts ==
  \/ HandlerStart
  \/ PromptRendered
  \/ PromptFailed
  \/ TextDelta
  \/ TextEnd
  \/ TextFail
  \/ ImagePartial
  \/ ImageCompleted
  \/ ImageEnd
  \/ ImageFail
  \/ AudioChunk
  \/ AudioEnd
  \/ AudioFail
  \/ JoinReject
  \/ JoinResolve
  \/ Upload
  \/ RequestsParsed
  \/ AppendRead
  \/ AppendWrite
  \/ Finally
  \/ ClientClose

ArtifactLive == InitNoRequests /\ [][NextArtifacts]_vars /\ Fairness

\* Runs whose narration carries at least one request.
InitRequests == Init /\ parseRequests(upstream, Players) # <<>>

CollectLive == InitRequests /\ [][Next]_vars /\ Fairness

(***************************************************************************)
(* Properties                                                              *)
(***************************************************************************)
HasEvent(type) == \E i \in DOMAIN events : events[i].type = type

\* sendEvent was called for the type, before or after the channel was closed.
Sent(type) == HasEvent(type) \/ type \in Range(lateWrites)

EventsOf(type) ==
  LET Is(e) == e.type = type IN SelectSeq(events, Is)

FirstIndex(type) ==
  IF HasEvent(type)
  THEN CHOOSE i \in DOMAIN events :
         events[i].type = type /\ \A j \in 1..(i - 1) : events[j].type # type
  ELSE 0

Opened == pc \notin {"init", "rejected"}

Appended == Len(stored.turns) - Len(game.turns)

LastTurn == stored.turns[Len(stored.turns)]

\* C1: once the event channel is open, the channel is never closed before a
\* terminal event has been written: done when nothing was caught, turn_error
\* when the catch block ran, whatever the handler was doing when it failed.
C1_TerminalBeforeClose ==
  /\ ended =>
       /\ caught = "none" => HasEvent("done")
       /\ caught # "none" => HasEvent("turn_error")
  /\ pc = "rejected" => events = <<>> /\ ~ended

\* A run closed after the store failed while the turn was being persisted.
C1_Witness == ended /\ caught = "store" /\ HasEvent("turn_error") /\ ~HasEvent("done")

\* C2: when the narration carries no request and every stream and collaborator
\* call eventually ends or fails, a run that opened the channel eventually
\* closes it, complete or failed.
C2_RunTerminates == Opened ~> (pc = "closed" /\ ended)

\* A run that closed after its image task had rejected during the join.
C2_Witness == pc = "closed" /\ ended /\ caught = "image" /\ audioTask = "pending"

\* C3: a run appends at most one turn, exactly one if it wrote turn_complete;
\* the append follows the parse, the settling of the image and speech tasks and
\* the end of the collection phase, and turn_complete carries the appended turn.
C3_AppendOnce ==
  Opened =>
    /\ Appended \in {0, 1}
    /\ SubSeq(stored.turns, 1, Len(game.turns)) = game.turns
    /\ Len(EventsOf("turn_complete")) <= 1
    /\ HasEvent("turn_complete") =>
         Appended = 1 /\ EventsOf("turn_complete")[1].turn = LastTurn
    /\ Appended = 1 =>
         /\ parsedTurn.ok /\ HasEvent("continuation_complete")
         /\ imageTask \in {"null", "fulfilled"}
         /\ audioTask \in {"completed", "errored"}
         /\ requests # <<>> => HasEvent("requests_complete") \/ HasEvent("request_error")
         /\ HasEvent("turn_complete")

\* A turn with an image and an answered request has been appended.
C3_Witness ==
  /\ Opened /\ Appended = 1 /\ HasEvent("turn_complete")
  /\ imageTask = "fulfilled" /\ HasEvent("requests_complete")

\* The buffer the narration stream left has been parsed.
Drained ==
  pc \notin {"init", "rejected", "preparing", "narrating"} /\ caught \notin {"prompt", "text"}

\* The buffer has no <turn>...</turn> block, or the block's continuation is
\* missing or empty once its CDATA wrappers are removed and it is trimmed.
SchemaError(raw) ==
  \/ TurnMatch(raw) = <<>>
  \/ LET seg == getTagSegment(TurnMatch(raw), "continuation")
     IN ~seg.closed \/ Trim(stripCdata(seg.content)) = <<>>

\* C4: a drained buffer with a schema error fails the turn: turn_error is
\* written, no turn_complete, and the stored turns are unchanged.
C4_SchemaErrorFailsTurn ==
  Drained /\ SchemaError(rawBuffer) =>
    HasEvent("turn_error") /\ ~HasEvent("turn_complete") /\ Appended = 0

\* C5: an image adapter that fails after continuation_complete, with the
\* client connected and the store working, leaves a completed turn without
\* image: the turn is persisted and turn_complete and done are written.
C5_ImageFailureNonFatal ==
  /\ pc = "closed" /\ imageTask = "rejected" /\ ~aborted /\ caught # "store"
  /\ HasEvent("continuation_complete")
  /\ FirstIndex("continuation_complete") < FirstIndex("turn_error")
  => /\ HasEvent("turn_complete") /\ HasEvent("done")
     /\ Appended = 1 /\ LastTurn.image = ""

\* C6: once the speech adapter has rejected, audio_error is written and
\* audio_complete is not, the join can resolve, and unless the image task or
\* the store fails no turn_error is written and the closed run has persisted
\* the turn and written turn_complete.
C6_SpeechFailureNonFatal ==
  audioTask = "errored" =>
    /\ Sent("audio_error") /\ ~Sent("audio_complete")
    /\ pc = "join" /\ imageTask \in {"null", "fulfilled"} => ENABLED JoinResolve
    /\ imageTask # "rejected" /\ caught # "store" =>
         /\ ~HasEvent("turn_error")
         /\ pc = "closed" => HasEvent("turn_complete") /\ Appended = 1

\* Speech failed after a chunk was forwarded and the turn completed.
C6_Witness ==
  /\ pc = "closed" /\ audioTask = "errored" /\ audioChunks > 0
  /\ HasEvent("turn_complete") /\ ~HasEvent("turn_error")

\* The narration, delivered or still to come, has no image_prompt tag.
NoImagePromptTag ==
  \A i \in DOMAIN (rawBuffer \o upstream) : ~IsOpen((rawBuffer \o upstream)[i], "image_prompt")

ImageEventTypes == {"image_prompt", "image_partial", "image_complete"}

\* C7: for a narration without image_prompt tag no image task is launched and
\* no image event written, the join resolves as soon as speech has settled, a
\* run closed without failure has written turn_complete, and the turn has no
\* image.
C7_NoImagePrompt ==
  Opened /\ NoImagePromptTag =>
    /\ imageTask = "null"
    /\ \A i \in DOMAIN events : events[i].type \notin ImageEventTypes
    /\ pc = "join" /\ audioTask \in {"completed", "errored"} => ENABLED JoinResolve
    /\ pc = "closed" /\ caught = "none" => HasEvent("turn_complete")
    /\ HasEvent("turn_complete") => EventsOf("turn_complete")[1].turn.image = ""

\* A narration without image prompt reached turn_complete.
C7_Witness ==
  /\ Opened /\ NoImagePromptTag /\ HasEvent("turn_complete")
  /\ EventsOf("turn_complete")[1].turn.image = ""

TurnScoped ==
  {"continuation_complete", "image_prompt", "image_partial", "image_complete",
   "audio_chunk", "audio_complete", "audio_error", "requests_received",
   "request_response", "requests_complete", "request_error"}

\* C8: in a run that wrote done, turn_complete directly precedes done and no
\* continuation, image, audio or request event follows turn_complete.
C8_TurnCompleteLast ==
  HasEvent("done") =>
    /\ HasEvent("turn_complete")
    /\ FirstIndex("done") = FirstIndex("turn_complete") + 1
    /\ \A i \in DOMAIN events :
         i > FirstIndex("turn_complete") => events[i].type \notin TurnScoped

\* C9: the collection phase always ends, also when a player never answers.
C9_CollectionBounded == (pc = "collecting") ~> (pc # "collecting")

\* The players whose answer request i waits for.
Awaited(i) ==
  IF requests[i].type = "multiple_choice"
  THEN Range(game.players)
  ELSE Range(requests[i].targetPlayers)

\* C10: when the parsed turn has requests and collection did not error, the
\* turn is persisted and turn_complete written only with a collected response
\* from every player of the start-of-run roster for a multiple_choice request
\* and from the target player for a free_text or yes_no request.
C10_AllExpectedAnswered ==
  /\ Opened /\ requests # <<>> /\ ~HasEvent("request_error")
  /\ Appended = 1 \/ HasEvent("turn_complete")
  => /\ responses.defined
     /\ \A i \in DOMAIN requests :
          /\ requests[i].type \in {"free_text", "yes_no"} =>
               Len(requests[i].targetPlayers) = 1
          /\ \A p \in Awaited(i) : p \in PlayersOf(responses.map[i])

\* A vote answered by both players of the roster was persisted.
C10_Witness ==
  /\ Opened /\ HasEvent("turn_complete") /\ ~HasEvent("request_error")
  /\ requests # <<>> /\ requests[1].type = "multiple_choice"
  /\ PlayersOf(responses.map[1]) = Range(game.players)

\* C11: when the turn had at least one request, the turn carried by
\* turn_complete and appended to the history holds the parsed requests and the
\* collected responses.
C11_TurnCarriesRequests ==
  HasEvent("turn_complete") /\ requests # <<>> =>
    /\ "requests" \in DOMAIN LastTurn /\ LastTurn.requests = requests
    /\ "responses" \in DOMAIN LastTurn /\ LastTurn.responses = responses

\* The index in requests of the request with the given id.
RequestIndex(id) == CHOOSE i \in DOMAIN requests : requests[i].id = id

\* The request_response events written before request_error.
ForwardedBeforeError ==
  {i \in DOMAIN events :
     events[i].type = "request_response" /\ i < FirstIndex("request_error")}

\* C12: when the mailbox fails during collection, request_error is written and
\* no turn_error follows from it, the run still persists the turn and writes
\* turn_complete, and the persisted turn holds every response that had been
\* collected before the failure.
C12_MailboxFailureKeepsResponses ==
  HasEvent("request_error") =>
    /\ caught # "store" => ~HasEvent("turn_error")
    /\ pc = "closed" /\ caught = "none" => HasEvent("turn_complete") /\ Appended = 1
    /\ HasEvent("turn_complete") =>
         \A i \in ForwardedBeforeError :
           /\ "responses" \in DOMAIN LastTurn
           /\ LastTurn.responses.defined
           /\ events[i].playerId
                \in PlayersOf(LastTurn.responses.map[RequestIndex(events[i].requestId)])

\* The number of turn_error and audio_error writes the handler has made, to
\* the open channel or after res.end().
ErrorWrites ==
  LET IsError(type) == type \in {"turn_error", "audio_error"}
  IN Len(SelectSeq(Types(events), IsError)) + Len(SelectSeq(lateWrites, IsError))

\* A step in which the text, image or speech adapter settles.
AdapterSettles ==
  \/ pc = "narrating" /\ pc' # "narrating"
  \/ imageTask = "pending" /\ imageTask' # "pending"
  \/ audioTask = "pending" /\ audioTask' # "pending"

\* C13: once the client has disconnected and the abort signal is set, an
\* adapter in flight settles without a turn_error or audio_error event being
\* written, in whichever phase the disconnect happened.
C13_DisconnectIsCancellation ==
  [][aborted /\ AdapterSettles => ErrorWrites' = ErrorWrites]_vars

\* What onChunk reads from the buffer: the stripped, trimmed content of a
\* closed image_prompt segment, empty when there is none.
PromptInBuffer(buffer) ==
  LET seg == getTagSegment(buffer, "image_prompt")
  IN IF seg.closed THEN Trim(stripCdata(seg.content)) ELSE <<>>

\* C14: while the narration is still streaming, a buffer whose image_prompt
\* segment is closed with non-empty content means the image adapter has been
\* launched and image_prompt written with that content, in the step of the
\* delta that closed it and before continuation_complete; the handler goes on
\* consuming deltas while the image task is in flight.
C14_ImageStartsMidNarration ==
  pc = "narrating" /\ PromptInBuffer(rawBuffer) # <<>> =>
    /\ imageTask # "null"
    /\ Len(EventsOf("image_prompt")) = 1
    /\ EventsOf("image_prompt")[1].prompt = PromptInBuffer(rawBuffer)
    /\ ~HasEvent("continuation_complete")
    /\ upstream # <<>> /\ ~aborted => ENABLED TextDelta

\* The image task produced a preview and later deltas arrived while the
\* narration was still streaming.
C14_Witness ==
  /\ pc = "narrating" /\ rawBuffer = DocImageRequest /\ upstream = <<>>
  /\ imageTask = "pending" /\ imagePartials > 0

\* The positions in the channel of the events of one type.
IndicesOf(type) == {i \in DOMAIN events : events[i].type = type}

\* What holds of the speech task in every state.
SpeechFollowsNarration ==
  /\ audioTask = "null" => audioChunks = 0 /\ IndicesOf("audio_chunk") = {}
  /\ audioTask # "null" =>
       /\ Drained /\ parsedTurn.ok
       /\ Len(EventsOf("continuation_complete")) = 1
       /\ audioText = EventsOf("continuation_complete")[1].text
       /\ HasEvent("turn_complete") => audioText = LastTurn.continuation
  /\ \A i \in IndicesOf("audio_chunk") :
       HasEvent("continuation_complete") /\ FirstIndex("continuation_complete") < i

\* The only step that starts the speech task or sets its text is the one that
\* ends the narration, from a task that was never started.
SpeechStartsOnce ==
  /\ (audioTask' # audioTask /\ audioTask' = "pending") =>
       (audioTask = "null" /\ pc = "narrating")
  /\ audioText' # audioText => (audioTask = "null" /\ audioTask' = "pending")

\* C15: the speech adapter is started at most once, never before the
\* narration has drained and continuation_complete was written; the text it is
\* given is the continuation_complete payload and the persisted continuation;
\* no audio_chunk precedes continuation_complete.
C15_SpeechAfterNarration == []SpeechFollowsNarration /\ [][SpeechStartsOnce]_vars

\* Speech was started on the final continuation, forwarded a chunk, and the
\* turn was persisted.
C15_Witness ==
  /\ audioTask = "completed" /\ audioChunks > 0 /\ HasEvent("turn_complete")
  /\ audioText = LastTurn.continuation /\ audioText # <<>>

\* The handler is past the artifact join without a caught error.
PastJoin == pc \in {"uploading", "requests", "creating_keys", "collecting", "cleanup",
                    "append_read", "append_write", "flush"}

\* C16: the handler passes the join, and the turn is persisted, only with the
\* image task absent or fulfilled and the speech task settled with
\* audio_complete or audio_error written; while the handler waits, either task
\* can finish whether or not the other has.
C16_JoinWaitsForBoth ==
  /\ PastJoin \/ (Opened /\ Appended = 1) =>
       /\ imageTask \in {"null", "fulfilled"}
       /\ audioTask \in {"completed", "errored"}
       /\ HasEvent("audio_complete") \/ HasEvent("audio_error")
  /\ pc = "join" /\ imageTask = "pending" => ENABLED ImageEnd
  /\ pc = "join" /\ audioTask = "pending" /\ imageTask # "rejected" => ENABLED AudioEnd

\* A turn was persisted after speech completed first and the image second.
C16_Witness ==
  /\ Opened /\ Appended = 1 /\ imageTask = "fulfilled" /\ audioTask = "completed"
  /\ FirstIndex("audio_complete") < FirstIndex("image_complete")

\* C17: the audio_chunk events of the channel carry the indices 0, 1, 2, ...
\* in the order written, audio_complete carries the number of audio_chunk
\* events written before it, and no audio_chunk follows audio_complete.
C17_AudioChunkIndices ==
  /\ \A k \in DOMAIN EventsOf("audio_chunk") : EventsOf("audio_chunk")[k].index = k - 1
  /\ Len(EventsOf("audio_complete")) <= 1
  /\ HasEvent("audio_complete") =>
       /\ EventsOf("audio_complete")[1].totalChunks = Len(EventsOf("audio_chunk"))
       /\ \A i \in IndicesOf("audio_chunk") : i < FirstIndex("audio_complete")

\* Speech completed after as many chunks as the model allows.
C17_Witness ==
  /\ HasEvent("audio_complete") /\ Len(EventsOf("audio_chunk")) = MaxAudioChunks
  /\ EventsOf("audio_complete")[1].totalChunks = MaxAudioChunks

\* Artifact generation still in flight: the image or the speech task has not
\* settled.
ArtifactsInFlight == imageTask = "pending" \/ audioTask = "pending"

\* C18: the collection phase runs concurrently with artifact waiting: once the
\* narration is parsed and holds requests, the handler can announce them
\* (requests_received) while image or speech generation is still in flight.
C18_CollectionConcurrent ==
  /\ pc = "join" /\ caught = "none"
  /\ parseRequests(rawBuffer, game.players) # <<>>
  /\ ArtifactsInFlight
  => ENABLED RequestsParsed

(***************************************************************************)
(* The buffer functions on their own: getTagSegment and stripCdata applied *)
(* to a buffer that grows one atom at a time, as onChunk grows rawBuffer,  *)
(* for every narration of MaxChunks atoms.  The handler does not run.      *)
(***************************************************************************)
MaxChunks == 4

ChunkAtoms ==
  {OpenFull["image_prompt"], OpenPrefix["image_prompt"], CloseTag["image_prompt"],
   OpenFull["continuation"], CloseTag["continuation"], ">", "a", CdataOpen, CdataClose}

Narrations == [1..MaxChunks -> ChunkAtoms]

ScanInit ==
  /\ pc = "scanning"
  /\ httpStatus = 0
  /\ stored = NoGame
  /\ game = NoGame
  /\ upstream \in Narrations
  /\ rawBuffer = <<>>
  /\ imagePrompt = <<>>
  /\ imageTask = "null"
  /\ imagePartials = 0
  /\ finalImage = ""
  /\ parsedTurn = NoParsedTurn
  /\ audioTask = "null"
  /\ audioChunks = 0
  /\ audioText = <<>>
  /\ imageUrl = ""
  /\ requests = <<>>
  /\ responses = NoResponses
  /\ loops = <<>>
  /\ mailbox = <<>>
  /\ submits = 0
  /\ appendGame = NoGame
  /\ events = <<>>
  /\ lateWrites = <<>>
  /\ ended = FALSE
  /\ aborted = FALSE
  /\ caught = "none"
  /\ ClientInit
  /\ GameStoreIdle

\* Lines 303-307: rawBuffer += chunk, then the image prompt is read from the
\* closed image_prompt segment until one has been found.
ScanChunk ==
  /\ pc = "scanning" /\ upstream # <<>>
  /\ LET buffer == Append(rawBuffer, Head(upstream))
         promptSegment == getTagSegment(buffer, "image_prompt")
     IN /\ rawBuffer' = buffer
        /\ upstream' = Tail(upstream)
        /\ imagePrompt' = IF imagePrompt = <<>> /\ promptSegment.closed
                          THEN Trim(stripCdata(promptSegment.content))
                          ELSE imagePrompt
  /\ UNCHANGED <<pc, startVars, parsedTurn, imageVars, audioVars, imageUrl, requestVars,
                 mailbox, submits, storeVars, events, lateWrites, ended, aborted, caught>>
  /\ UNCHANGED <<clientVars, gameStoreVars>>

ScanNext == ScanChunk

ScanSpec == ScanInit /\ [][ScanNext]_vars

\* The buffers that extend the current one: it followed by one or more of the
\* atoms still to come.
Extensions == {rawBuffer \o SubSeq(upstream, 1, k) : k \in 1..Len(upstream)}

C20_StripCdataIdempotent ==
  stripCdata(stripCdata(rawBuffer)) = stripCdata(rawBuffer)

\* The complete narration: what onChunk has accumulated followed by what the
\* text adapter has still to deliver.
CompleteText == rawBuffer \o upstream

\* parseTurnPayload applied to each complete narration in one piece.
ParsedDocs == [doc \in Docs |-> parseTurnPayload(doc)]

\* The step writes continuation_complete for the first time.
ContinuationWritten ==
  ~HasEvent("continuation_complete") /\ HasEvent("continuation_complete")'

\* C21: however the narration is split into deltas, every delta leaves the
\* accumulated buffer a prefix of the narration, and continuation_complete is
\* written once, carrying the continuation that parseTurnPayload returns for
\* the complete narration in one piece.
C21_IncrementalParity ==
  [][/\ rawBuffer' # rawBuffer => CompleteText' \in Docs
     /\ HasEvent("continuation_complete")' =>
          Len(EventsOf("continuation_complete")') = 1
     /\ ContinuationWritten =>
          /\ ParsedDocs[CompleteText].ok
          /\ EventsOf("continuation_complete")'[1].text =
               ParsedDocs[CompleteText].continuation]_vars

\* The longest narration, delivered whole over several deltas.
C21_Witness ==
  /\ HasEvent("continuation_complete") /\ upstream = <<>>
  /\ rawBuffer = DocImageRequest
  /\ EventsOf("continuation_complete")[1].text = <<"a">>

(***************************************************************************)
(* parseRequests on its own: applied to a <requests> block of MaxElements  *)
(* request elements, for every choice of elements and every roster.        *)
(***************************************************************************)
MaxElements == 2

Rosters == {<<>>, <<"p1">>, <<"p1", "p2">>, <<"p1", "p2", "p3">>}

RequestBlocks ==
  {<<OpenFull["requests"]>> \o elements \o <<CloseTag["requests"]>> :
     elements \in [1..MaxElements -> DOMAIN RequestElements]}

RequestParseInit ==
  /\ pc = "parsing_requests"
  /\ httpStatus = 0
  /\ stored \in {[exists |-> TRUE, players |-> roster, turns |-> <<>>] : roster \in Rosters}
  /\ game = stored
  /\ upstream = <<>>
  /\ rawBuffer \in RequestBlocks
  /\ imagePrompt = <<>>
  /\ imageTask = "null"
  /\ imagePartials = 0
  /\ finalImage = ""
  /\ parsedTurn = NoParsedTurn
  /\ audioTask = "null"
  /\ audioChunks = 0
  /\ audioText = <<>>
  /\ imageUrl = ""
  /\ requests = <<>>
  /\ responses = NoResponses
  /\ loops = <<>>
  /\ mailbox = <<>>
  /\ submits = 0
  /\ appendGame = NoGame
  /\ events = <<>>
  /\ lateWrites = <<>>
  /\ ended = FALSE
  /\ aborted = FALSE
  /\ caught = "none"
  /\ ClientInit
  /\ GameStoreIdle

\* Line 404: const requests = parseRequests(rawBuffer, game.players).
ParseRequestsCall ==
  /\ pc = "parsing_requests"
  /\ requests' = parseRequests(rawBuffer, game.players)
  /\ pc' = "requests_parsed"
  /\ UNCHANGED <<startVars, textVars, imageVars, audioVars, imageUrl, responses, loops,
                 mailbox, submits, storeVars, events, lateWrites, ended, aborted, caught>>
  /\ UNCHANGED <<clientVars, gameStoreVars>>

RequestParseNext == ParseRequestsCall

RequestParseSpec == RequestParseInit /\ [][RequestParseNext]_vars

\* The request elements of the block, in document order, and the requests
\* parseRequests returned for the element at a position.
BlockElements ==
  [i \in 1..(Len(rawBuffer) - 2) |-> RequestElements[rawBuffer[i + 1]]]

RequestsAt(i) == {j \in DOMAIN requests : requests[j].id = i}

\* The reference has the form playerK with 1 <= K <= n for the roster.
InBounds(reference, players) ==
  /\ reference \in DOMAIN ReferenceNumber
  /\ ReferenceNumber[reference] >= 1
  /\ ReferenceNumber[reference] <= Len(players)

\* Every element of the block has its closing </request>.
ClosedBlock == \A i \in DOMAIN rawBuffer : rawBuffer[i] \notin UnclosedElements

WellFormed(element, players) ==
  /\ element.question
  /\ \/ element.type = "multiple_choice" /\ element.choices > 0
     \/ element.type \in {"free_text", "yes_no"} /\ InBounds(element.target, players)

\* C23: dropping is per request: whatever else the block holds, every closed,
\* well-formed element yields a request, and the requests are returned in
\* document order.
C23_DroppingIsPerRequest ==
  pc = "requests_parsed" =>
    /\ \A i \in DOMAIN BlockElements :
         /\ rawBuffer[i + 1] \notin UnclosedElements
         /\ WellFormed(BlockElements[i], game.players)
         => RequestsAt(i) # {}
    /\ \A j, k \in DOMAIN requests : j < k => requests[j].id < requests[k].id

(***************************************************************************)
(* parseTurnPayload on its own: applied to complete buffers with and       *)
(* without the <turn> envelope, with every continuation body of up to      *)
(* MaxBody atoms and with or without an image prompt.                      *)
(***************************************************************************)
MaxBody == 4

BodyAtoms == {"a", Blank, Newline, CdataOpen, CdataClose}

Bodies == UNION {[1..n -> BodyAtoms] : n \in 0..MaxBody}

EnvelopeOpenings == {<<>>, <<OpenFull["turn"]>>, <<OpenPrefix["turn"], ">">>}

EnvelopeClosings == {<<>>, <<CloseTag["turn"]>>}

ImagePromptParts ==
  {<<>>,
   <<OpenFull["image_prompt"], "b", CloseTag["image_prompt"]>>,
   <<OpenFull["image_prompt"], Blank, CloseTag["image_prompt"]>>,
   <<OpenFull["image_prompt"], CdataOpen, "b", CdataClose, CloseTag["image_prompt"]>>}

TurnBuffers ==
  {opening \o <<OpenFull["continuation"]>> \o body \o <<CloseTag["continuation"]>>
     \o prompt \o closing :
     opening \in EnvelopeOpenings, body \in Bodies, prompt \in ImagePromptParts,
     closing \in EnvelopeClosings}

TurnParseInit ==
  /\ pc = "parsing_turn"
  /\ httpStatus = 0
  /\ stored = NoGame
  /\ game = NoGame
  /\ upstream = <<>>
  /\ rawBuffer \in TurnBuffers
  /\ imagePrompt = <<>>
  /\ imageTask = "null"
  /\ imagePartials = 0
  /\ finalImage = ""
  /\ parsedTurn = NoParsedTurn
  /\ audioTask = "null"
  /\ audioChunks = 0
  /\ audioText = <<>>
  /\ imageUrl = ""
  /\ requests = <<>>
  /\ responses = NoResponses
  /\ loops = <<>>
  /\ mailbox = <<>>
  /\ submits = 0
  /\ appendGame = NoGame
  /\ events = <<>>
  /\ lateWrites = <<>>
  /\ ended = FALSE
  /\ aborted = FALSE
  /\ caught = "none"
  /\ ClientInit
  /\ GameStoreIdle

\* Line 322: const parsedTurn = parseTurnPayload(rawBuffer).
ParseTurnCall ==
  /\ pc = "parsing_turn"
  /\ parsedTurn' = parseTurnPayload(rawBuffer)
  /\ pc' = "turn_parsed"
  /\ UNCHANGED <<startVars, upstream, rawBuffer, imagePrompt, imageVars, audioVars, imageUrl,
                 requestVars, mailbox, submits, storeVars, events, lateWrites, ended,
                 aborted, caught>>
  /\ UNCHANGED <<clientVars, gameStoreVars>>

TurnParseNext == ParseTurnCall

TurnParseSpec == TurnParseInit /\ [][TurnParseNext]_vars

\* The content of a tag inside the <turn> envelope with its CDATA wrappers
\* removed and trimmed; empty when the tag is absent.
StrippedContent(raw, tag) ==
  LET seg == getTagSegment(TurnMatch(raw), tag)
  IN IF seg.closed THEN Trim(stripCdata(seg.content)) ELSE <<>>

\* C24: parseTurnPayload fails when the buffer has no <turn> envelope or the
\* continuation is empty once stripped and trimmed; otherwise it returns the
\* stripped, trimmed content of the continuation and of the image_prompt,
\* the latter undefined when the tag is absent or empty.
C24_ParseTurnPayload ==
  pc = "turn_parsed" =>
    IF TurnMatch(rawBuffer) = <<>> \/ StrippedContent(rawBuffer, "continuation") = <<>>
    THEN ~parsedTurn.ok
    ELSE /\ parsedTurn.ok
         /\ parsedTurn.continuation = StrippedContent(rawBuffer, "continuation")
         /\ parsedTurn.imagePrompt = StrippedContent(rawBuffer, "image_prompt")

\* The four request variants of the Request type, and an element that is a
\* well-formed instance of one of them for the roster.
RequestTypes == {"multiple_choice", "free_text", "yes_no", "dice_roll"}

WellFormedVariant(element, players) ==
  /\ element.type \in RequestTypes
  /\ element.question
  /\ IF element.type = "multiple_choice" THEN element.choices > 0
     ELSE InBounds(element.target, players)

\* C25: in a block of closed elements, every well-formed element of each of
\* the four variants yields a request of its variant; a dice_roll element
\* with a target in range yields a dice_roll request for that player.
C25_EveryVariantParsed ==
  pc = "requests_parsed" /\ ClosedBlock =>
    \A i \in DOMAIN BlockElements :
      WellFormedVariant(BlockElements[i], game.players) =>
        \E j \in RequestsAt(i) :
          /\ requests[j].type = BlockElements[i].type
          /\ requests[j].type = "dice_roll" =>
               requests[j].targetPlayers =
                 <<game.players[ReferenceNumber[BlockElements[i].target]]>>

\* The entries of a list of responses that belong to one player, and the
\* request_response events written for a (request, player) pair.
EntriesOf(entries, playerId) == {k \in DOMAIN entries : entries[k].playerId = playerId}

ResponseEventsFor(i, playerId) ==
  {k \in DOMAIN events :
     /\ events[k].type = "request_response"
     /\ events[k].requestId = requests[i].id
     /\ events[k].playerId = playerId}

\* The mailbox holds at most one response per (request, player) pair; a
\* pair is collected at most once and reported at most once, and a collected
\* pair is reported exactly once while the channel takes writes; the collected
\* responses of a request hold one entry per player.
OneResponsePerPair ==
  \A i \in DOMAIN loops : \A playerId \in Range(stored.players) :
    LET reported == Cardinality(ResponseEventsFor(i, playerId))
        collected == Cardinality(EntriesOf(loops[i].collected, playerId))
    IN  /\ Cardinality(EntriesOf(mailbox[i], playerId)) <= 1
        /\ collected <= 1
        /\ reported <= collected
        /\ "request_response" \notin Range(lateWrites) => reported = collected
        /\ responses.defined =>
             Cardinality(EntriesOf(responses.map[i], playerId)) = collected

\* C26: every step that touches the mailbox, the poll loops, the collected
\* responses or the channel leaves at most one response per (request, player)
\* pair, collected at most once and reported by one request_response event.
C26_OneResponsePerPair ==
  [][(mailbox' # mailbox \/ loops' # loops \/ responses' # responses
        \/ Len(events') # Len(events)) => OneResponsePerPair']_vars

\* A player answered the same request twice: the first answer was collected
\* and reported once, the second replaced it in the mailbox.
C26_Witness ==
  /\ submits = 2
  /\ \E i \in DOMAIN loops :
       /\ Cardinality(ResponseEventsFor(i, "p1")) = 1
       /\ \E k \in EntriesOf(mailbox[i], "p1"), e \in ResponseEventsFor(i, "p1") :
            mailbox[i][k].response # events[e].response

(***************************************************************************)
(* tv/[gameId].tsx: the audio path of the TV page.  The stream delivers    *)
(* audio_chunk events with any alignment slice; the media element plays    *)
(* what the SourceBuffer holds.  The stream handler does not run.          *)
(***************************************************************************)
MaxDelivered == 3
MaxHeld == 2

\* The server side at rest.
ServerIdle ==
  /\ pc = "init"
  /\ httpStatus = 0
  /\ stored = NoGame
  /\ game = NoGame
  /\ upstream = <<>>
  /\ rawBuffer = <<>>
  /\ imagePrompt = <<>>
  /\ imageTask = "null"
  /\ imagePartials = 0
  /\ finalImage = ""
  /\ parsedTurn = NoParsedTurn
  /\ audioTask = "null"
  /\ audioChunks = 0
  /\ audioText = <<>>
  /\ imageUrl = ""
  /\ requests = <<>>
  /\ responses = NoResponses
  /\ loops = <<>>
  /\ mailbox = <<>>
  /\ submits = 0
  /\ appendGame = NoGame
  /\ events = <<>>
  /\ lateWrites = <<>>
  /\ ended = FALSE
  /\ aborted = FALSE
  /\ caught = "none"

NonDecreasing(times) == \A i, j \in DOMAIN times : i <= j => times[i] <= times[j]

\* Alignment slices with three arrays of equal length (0 to 2 characters)
\* whose end times are non-decreasing within the slice.
SliceTimes == {0, 1}

AlignmentSlices ==
  UNION {{[characters |-> [i \in 1..n |-> "c"],
           characterStartTimesSeconds |-> [i \in 1..n |-> 0],
           characterEndTimesSeconds |-> ends] :
            ends \in {e \in [1..n -> SliceTimes] : NonDecreasing(e)}} :
         n \in 0..2}

\* Lines 352-370: the slice is appended to the accumulated alignment.
AppendAlignment(prev, alignmentData) ==
  IF Len(alignmentData.characters) > 0
  THEN [characters |-> prev.characters \o alignmentData.characters,
        characterStartTimesSeconds |->
          prev.characterStartTimesSeconds \o alignmentData.characterStartTimesSeconds,
        characterEndTimesSeconds |->
          prev.characterEndTimesSeconds \o alignmentData.characterEndTimesSeconds]
  ELSE prev

\* The held chunks the playback position has passed.
PlayedHeld(buffer, time) == {i \in DOMAIN buffer.held : buffer.held[i].slot < time}

\* pumpAudioQueue (lines 288-329).  appendBuffer throws QuotaExceededError
\* when the buffer holds MaxHeld chunks; then, if currentTime > 30, the
\* leading data up to currentTime - 30 is removed (evict of the played
\* chunks).  Both appendBuffer and remove end with an updateend event.
pumpAudioQueue(queue, buffer, started, over30, evict) ==
  IF ~buffer.exists \/ buffer.updating \/ queue = <<>>
  THEN [queue |-> queue, buffer |-> buffer, started |-> started]
  ELSE IF Len(buffer.held) < MaxHeld
  THEN [queue |-> Tail(queue),
        buffer |-> [buffer EXCEPT
                      !.updating = TRUE,
                      !.held = Append(@, [slot |-> buffer.timestampOffset, index |-> Head(queue)]),
                      !.timestampOffset = @ + 1],
        started |-> TRUE]
  ELSE IF over30
  THEN [queue |-> Tail(queue),
        buffer |-> [buffer EXCEPT
                      !.updating = TRUE,
                      !.held = SubSeq(@, evict + 1, Len(@))],
        started |-> started]
  ELSE [queue |-> Tail(queue), buffer |-> buffer, started |-> started]

\* The audio_chunk listener (lines 331-392) for an event whose alignment
\* slice is one of the given ones.
AudioChunkListener(slices) ==
  /\ sourceState = "streaming"
  /\ delivered < MaxDelivered
  /\ \E alignmentData \in slices, over30 \in BOOLEAN,
        evict \in 0..Cardinality(PlayedHeld(sourceBuffer, currentTime)) :
       LET pumped == pumpAudioQueue(Append(audioChunksQueue, delivered), sourceBuffer,
                                    hasStartedPlayback, over30, evict)
       IN /\ audioAlignment' = AppendAlignment(audioAlignment, alignmentData)
          /\ mediaSource' = IF mediaSource = "null" THEN "created" ELSE mediaSource
          /\ audioChunksQueue' = pumped.queue
          /\ sourceBuffer' = pumped.buffer
          /\ hasStartedPlayback' = pumped.started
  /\ delivered' = delivered + 1
  /\ UNCHANGED <<currentTime, turnVars,
                 audioPlaybackTime, streamingNarration, serverVars, gameStoreVars>>

AudioChunkEvent == AudioChunkListener(AlignmentSlices)

\* The sourceopen listener (lines 265-285): the SourceBuffer is created,
\* unless the type is not supported or addSourceBuffer throws.
SourceOpen ==
  /\ mediaSource = "created"
  /\ mediaSource' = "open"
  /\ \E supported \in BOOLEAN :
       sourceBuffer' = IF supported THEN [NoSourceBuffer EXCEPT !.exists = TRUE]
                       ELSE sourceBuffer
  /\ UNCHANGED <<audioAlignment, delivered, audioChunksQueue, hasStartedPlayback,
                 currentTime, turnVars,
                 audioPlaybackTime, streamingNarration, serverVars, gameStoreVars>>

\* The updateend listener (line 279): the pending operation is over and the
\* queue is pumped.
UpdateEnd ==
  /\ sourceBuffer.exists /\ sourceBuffer.updating
  /\ \E over30 \in BOOLEAN,
        evict \in 0..Cardinality(PlayedHeld(sourceBuffer, currentTime)) :
       LET pumped == pumpAudioQueue(audioChunksQueue,
                                    [sourceBuffer EXCEPT !.updating = FALSE],
                                    hasStartedPlayback, over30, evict)
       IN /\ audioChunksQueue' = pumped.queue
          /\ sourceBuffer' = pumped.buffer
          /\ hasStartedPlayback' = pumped.started
  /\ UNCHANGED <<audioAlignment, delivered, mediaSource, currentTime, turnVars,
                 audioPlaybackTime, streamingNarration, serverVars, gameStoreVars>>

\* The media element plays the chunk at the playback position.
PlaybackAdvance ==
  /\ hasStartedPlayback
  /\ \E i \in DOMAIN sourceBuffer.held : sourceBuffer.held[i].slot = currentTime
  /\ currentTime' = currentTime + 1
  /\ UNCHANGED <<audioAlignment, delivered, audioChunksQueue, mediaSource, sourceBuffer,
                 hasStartedPlayback, turnVars,
                 audioPlaybackTime, streamingNarration, serverVars, gameStoreVars>>

PlaybackInit == ServerIdle /\ ClientInit /\ GameStoreIdle

PlaybackNext == AudioChunkEvent \/ SourceOpen \/ UpdateEnd \/ PlaybackAdvance

PlaybackSpec == PlaybackInit /\ [][PlaybackNext]_vars

\* C27: after any sequence of audio_chunk events whose slices have three
\* arrays of equal length, the accumulated alignment has three arrays of
\* equal length and its end times are non-decreasing.
C27_AlignmentArrays ==
  /\ Len(audioAlignment.characters) = Len(audioAlignment.characterStartTimesSeconds)
  /\ Len(audioAlignment.characters) = Len(audioAlignment.characterEndTimesSeconds)
  /\ NonDecreasing(audioAlignment.characterEndTimesSeconds)

\* The chunks the buffer holds followed by the chunks still queued.
PendingChunks ==
  [i \in DOMAIN sourceBuffer.held |-> sourceBuffer.held[i].index] \o audioChunksQueue

\* C28: no unplayed data is lost: the chunks held by the buffer and the
\* queued ones are, in arrival order, all the chunks received since the
\* oldest one still held, and the chunks no longer held had been played.
C28_NoUnplayedDataLost ==
  /\ \A i \in DOMAIN PendingChunks :
       PendingChunks[i] = delivered - Len(PendingChunks) + i - 1
  /\ sourceBuffer.timestampOffset - Len(sourceBuffer.held) <= currentTime


(***************************************************************************)
(* The end of a turn on the TV page: runTurnOnce's completion flags, its   *)
(* safety timer and the listeners that settle them                         *)
(* (src/pages/tv/[gameId].tsx, lines 156-181 and 394-517).                 *)
(***************************************************************************)
\* checkComplete (lines 164-172): with both flags set the safety timer is
\* cleared and the promise resolves; the engine loop then sets the status
\* to "cooldown" (lines 520-560).
checkComplete(stream, audio, timeout, status) ==
  IF stream /\ audio
  THEN [timeout |-> IF timeout = "armed" THEN "cleared" ELSE timeout,
        status |-> "cooldown"]
  ELSE [timeout |-> timeout, status |-> status]

\* A listener leaves the two flags at the given values and calls checkComplete.
SettleTurn(stream, audio) ==
  LET checked == checkComplete(stream, audio, audioSafetyTimeout, engineStatus)
  IN  /\ streamComplete' = stream
      /\ audioPlaybackComplete' = audio
      /\ audioSafetyTimeout' = checked.timeout
      /\ engineStatus' = checked.status

\* tryEndStream (lines 398-446).  Without a MediaSource or SourceBuffer it
\* returns; while the buffer is updating it re-arms itself; with an empty
\* queue and an open MediaSource it ends the stream, registers onAudioEnded
\* and marks the audio complete when the element is paused at time 0;
\* otherwise it does nothing.
tryEndStream(paused) ==
  IF mediaSource = "null" \/ ~sourceBuffer.exists
  THEN [ended |-> FALSE, retry |-> FALSE, complete |-> FALSE]
  ELSE IF sourceBuffer.updating
  THEN [ended |-> FALSE, retry |-> TRUE, complete |-> FALSE]
  ELSE IF audioChunksQueue = <<>> /\ mediaSource = "open"
  THEN [ended |-> TRUE, retry |-> FALSE, complete |-> paused /\ currentTime = 0]
  ELSE [ended |-> FALSE, retry |-> FALSE, complete |-> FALSE]

\* audio.paused: true until play() was called (line 303), and afterwards
\* true or false as the browser allowed the playback or not.
PausedValues == IF hasStartedPlayback THEN BOOLEAN ELSE {TRUE}

EndStreamStep ==
  \E paused \in PausedValues :
    LET r == tryEndStream(paused)
    IN  /\ mediaSource' = IF r.ended THEN "ended" ELSE mediaSource
        /\ endedListener' = (endedListener \/ r.ended)
        /\ retryPending' = r.retry
        /\ SettleTurn(streamComplete, audioPlaybackComplete \/ r.complete)

\* An audio_chunk event that carries no alignment.
NoAlignmentData ==
  [characters |-> <<>>, characterStartTimesSeconds |-> <<>>,
   characterEndTimesSeconds |-> <<>>]

AudioChunkPlain == AudioChunkListener({NoAlignmentData})

\* The audio_complete listener (lines 394-450).
AudioCompleteEvent ==
  /\ sourceState = "streaming"
  /\ sourceState' = "audio_over"
  /\ EndStreamStep
  /\ UNCHANGED <<audioAlignment, delivered, audioChunksQueue, sourceBuffer,
                 hasStartedPlayback, currentTime, engineError,
                 audioPlaybackTime, streamingNarration, serverVars, gameStoreVars>>

\* The 50 ms timer of line 405 runs tryEndStream again.
TryEndStreamRetry ==
  /\ retryPending
  /\ EndStreamStep
  /\ UNCHANGED <<audioAlignment, delivered, audioChunksQueue, sourceBuffer,
                 hasStartedPlayback, currentTime, sourceState, engineError,
                 audioPlaybackTime, streamingNarration, serverVars, gameStoreVars>>

\* The audio_error listener (lines 452-458).
AudioErrorEvent ==
  /\ sourceState = "streaming"
  /\ sourceState' = "audio_over"
  /\ SettleTurn(streamComplete, TRUE)
  /\ UNCHANGED <<audioAlignment, delivered, bufferVars, endedListener, retryPending,
                 engineError,
                 audioPlaybackTime, streamingNarration, serverVars, gameStoreVars>>

\* The done listener (lines 492-504): the source is closed, the stream is
\* complete, and the audio counts as complete only when no MediaSource was
\* created in this turn (audioRef.current is set once and kept).
DoneEvent ==
  /\ sourceState = "audio_over"
  /\ sourceState' = "closed"
  /\ SettleTurn(TRUE, audioPlaybackComplete \/ mediaSource = "null")
  /\ UNCHANGED <<audioAlignment, delivered, bufferVars, endedListener, retryPending,
                 engineError,
                 audioPlaybackTime, streamingNarration, serverVars, gameStoreVars>>

\* The turn_error listener (lines 480-490) and source.onerror (lines
\* 506-517) do the same with their own message: close, clear the timer, set
\* both flags, resolve.
AbandonTurn(message) ==
  /\ sourceState' = "closed"
  /\ engineError' = message
  /\ audioSafetyTimeout' = IF audioSafetyTimeout = "armed" THEN "cleared"
                           ELSE audioSafetyTimeout
  /\ streamComplete' = TRUE
  /\ audioPlaybackComplete' = TRUE
  /\ engineStatus' = "cooldown"
  /\ UNCHANGED <<audioAlignment, delivered, bufferVars, endedListener, retryPending,

                 audioPlaybackTime, streamingNarration, serverVars, gameStoreVars>>

TurnErrorEvent ==
  /\ sourceState # "closed"
  /\ AbandonTurn("Turn generation failed")

SourceError ==
  /\ sourceState # "closed"
  /\ AbandonTurn("Turn stream disconnected")

\* The safety timer's callback (lines 175-181).  It runs once, five minutes
\* after runTurnOnce began, and acts only when the stream is already
\* complete at that moment.
SafetyTimeout ==
  /\ audioSafetyTimeout = "armed"
  /\ audioSafetyTimeout' = "fired"
  /\ LET forced == ~audioPlaybackComplete /\ streamComplete
     IN  /\ audioPlaybackComplete' = (audioPlaybackComplete \/ forced)
         /\ engineStatus' = IF forced THEN "cooldown" ELSE engineStatus
  /\ UNCHANGED <<audioAlignment, delivered, bufferVars, sourceState, streamComplete,
                 endedListener, retryPending, engineError,
                 audioPlaybackTime, streamingNarration, serverVars, gameStoreVars>>

\* The audio element's 'ended' event reaches onAudioEnded (lines 416-422):
\* the stream was ended and the playback ran to the end of what was
\* appended.
AudioEnded ==
  /\ endedListener
  /\ mediaSource = "ended"
  /\ hasStartedPlayback
  /\ currentTime >= sourceBuffer.timestampOffset
  /\ endedListener' = FALSE
  /\ SettleTurn(streamComplete, TRUE)
  /\ UNCHANGED <<audioAlignment, delivered, bufferVars, sourceState, retryPending,
                 engineError,
                 audioPlaybackTime, streamingNarration, serverVars, gameStoreVars>>

TurnEngineNext ==
  \/ AudioChunkPlain
  \/ SourceOpen
  \/ UpdateEnd
  \/ PlaybackAdvance
  \/ AudioCompleteEvent
  \/ TryEndStreamRetry
  \/ AudioErrorEvent
  \/ DoneEvent
  \/ TurnErrorEvent
  \/ SourceError
  \/ SafetyTimeout
  \/ AudioEnded

\* The page's own timers and the media callbacks run when they are due; the
\* audio element is not obliged to play or to report that it ended.
TurnEngineFairness ==
  /\ WF_vars(SafetyTimeout)
  /\ WF_vars(TryEndStreamRetry)
  /\ WF_vars(SourceOpen)
  /\ WF_vars(UpdateEnd)

TurnEngineLive == PlaybackInit /\ [][TurnEngineNext]_vars /\ TurnEngineFairness

\* C29: whenever the done event has been received, runTurnOnce eventually
\* resolves and the engine goes to cooldown, even if the audio element never
\* reports that playback ended and whatever the order of the done event and
\* the safety timer.
C29_BoundedAudioWait == streamComplete ~> (engineStatus = "cooldown")

\* The same wait for the turns whose safety timer is still armed when the
\* done event arrives.
C29_BoundedWhileArmed ==
  (streamComplete /\ audioSafetyTimeout = "armed") ~> (engineStatus = "cooldown")

\* The done event was received after the safety timer had run, with audio
\* in the MediaSource that has not been reported as ended.
C29_TimerBeforeDone ==
  /\ streamComplete
  /\ audioSafetyTimeout = "fired"
  /\ ~audioPlaybackComplete
  /\ engineStatus = "running"


(***************************************************************************)
(* The narration overlay's highlight: the spoken character count computed  *)
(* from the alignment and the playback time                                *)
(* (src/components/tv/TurnNarrationOverlay.tsx, lines 27-42).  Times are   *)
(* whole ticks; one audio chunk plays for one tick.                        *)
(***************************************************************************)
MaxEndTime == 2

\* The loop of lines 33-39: the count follows the characters in order and
\* stops at the first one whose end time is after the playback time.
RECURSIVE CountFrom(_, _, _)
CountFrom(times, playbackTime, i) ==
  IF i > Len(times) \/ times[i] > playbackTime THEN i - 1
  ELSE CountFrom(times, playbackTime, i + 1)

\* spokenCharacterCount (lines 27-42): 0 without an alignment or at playback
\* time 0.
spokenCharacterCount(alignment, playbackTime) ==
  IF alignment = NullAlignment \/ playbackTime = 0 THEN 0
  ELSE CountFrom(alignment.characterEndTimesSeconds, playbackTime, 1)

\* Alignment slices of at most one character ending at any tick.
HighlightSlices ==
  {NoAlignmentData} \cup
  {[characters |-> <<"c">>, characterStartTimesSeconds |-> <<0>>,
    characterEndTimesSeconds |-> <<end>>] : end \in 0..MaxEndTime}

AudioChunkTimed == AudioChunkListener(HighlightSlices)

\* updatePlaybackTime (tv/[gameId].tsx, lines 306-312): on an animation
\* frame the playback time of the audio element is handed to the overlay.
AnimationFrame ==
  /\ hasStartedPlayback
  /\ audioPlaybackTime' = currentTime
  /\ UNCHANGED <<audioAlignment, delivered, bufferVars, turnVars, streamingNarration,
                 serverVars, gameStoreVars>>

HighlightNext ==
  \/ AudioChunkTimed
  \/ SourceOpen
  \/ UpdateEnd
  \/ PlaybackAdvance
  \/ AnimationFrame

HighlightSpec == PlaybackInit /\ [][HighlightNext]_vars

\* The number of the last character whose end time is at most the limit.
LastEndingBy(times, limit) ==
  LET within == {i \in DOMAIN times : times[i] <= limit}
  IN  IF within = {} THEN 0 ELSE CHOOSE i \in within : \A j \in within : j <= i

\* C30: at playback time t the spoken character count is the number of the
\* last character whose end time is at most t plus the lookahead (one tick
\* here), so a character ending within the lookahead window after t is
\* already counted; stated for alignments whose end times are in order and
\* playback times after the start.
C30_CountWithLookahead ==
  (/\ audioAlignment # NullAlignment
   /\ NonDecreasing(audioAlignment.characterEndTimesSeconds)
   /\ audioPlaybackTime > 0)
  => spokenCharacterCount(audioAlignment, audioPlaybackTime)
       = LastEndingBy(audioAlignment.characterEndTimesSeconds, audioPlaybackTime + 1)

\* The count without any lookahead: the number of the last character whose
\* end time is at most t.
C30_CountWithoutLookahead ==
  (/\ audioAlignment # NullAlignment
   /\ NonDecreasing(audioAlignment.characterEndTimesSeconds)
   /\ audioPlaybackTime > 0)
  => spokenCharacterCount(audioAlignment, audioPlaybackTime)
       = LastEndingBy(audioAlignment.characterEndTimesSeconds, audioPlaybackTime)

\* The count never decreases while the playback time grows.
C30_CountNonDecreasing ==
  [][spokenCharacterCount(audioAlignment', audioPlaybackTime')
       >= spokenCharacterCount(audioAlignment, audioPlaybackTime)]_vars

\* A character ends one tick after a playback time that is past the start.
C30_InsideWindow ==
  /\ audioAlignment # NullAlignment
  /\ NonDecreasing(audioAlignment.characterEndTimesSeconds)
  /\ audioPlaybackTime > 0
  /\ \E i \in DOMAIN audioAlignment.characterEndTimesSeconds :
       audioAlignment.characterEndTimesSeconds[i] = audioPlaybackTime + 1


(***************************************************************************)
(* The narration overlay's split of the narration into a spoken and an     *)
(* unspoken part (src/components/tv/TurnNarrationOverlay.tsx, lines        *)
(* 44-64), fed by the continuation_complete and audio_chunk listeners.     *)
(***************************************************************************)
MaxText == 2

NarrationChars == {"a", "b"}

\* The narrations of one to MaxText characters.
NarrationTexts == UNION {[1..n -> NarrationChars] : n \in 1..MaxText}

\* Alignment slices of one character that ends at tick 1 or 2.
OverlayEndTimes == {1, 2}

OverlaySlices ==
  {[characters |-> <<c>>, characterStartTimesSeconds |-> <<0>>,
    characterEndTimesSeconds |-> <<end>>] : c \in NarrationChars, end \in OverlayEndTimes}

\* String.prototype.startsWith on sequences of characters.
StartsWith(text, prefix) ==
  Len(prefix) <= Len(text) /\ SubSeq(text, 1, Len(prefix)) = prefix

\* String.prototype.slice(first, last) for 0 <= first, last: both ends are
\* clamped to the length.
StringSlice(text, first, last) ==
  Slice(text, Min(first, Len(text)) + 1, Min(last, Len(text)))

\* A split that takes the spoken part from the alignment in every case.
SplitFromAlignment(text, alignment, count) ==
  IF alignment = NullAlignment \/ count = 0
  THEN [spokenText |-> <<>>, unspokenText |-> text]
  ELSE [spokenText |-> StringSlice(alignment.characters, 0, count),
        unspokenText |-> StringSlice(text, count, Len(text))]

\* The useMemo of lines 44-64.  characters.join("") of one-character strings
\* is the sequence of the characters.
SplitNarration(text, alignment, count) ==
  IF alignment = NullAlignment \/ count = 0
  THEN [spokenText |-> <<>>, unspokenText |-> text]
  ELSE IF alignment.characters = text \/ StartsWith(text, alignment.characters)
  THEN [spokenText |-> StringSlice(alignment.characters, 0, count),
        unspokenText |-> StringSlice(text, count, Len(text))]
  ELSE [spokenText |-> StringSlice(text, 0, count),
        unspokenText |-> StringSlice(text, count, Len(text))]

\* What the overlay renders in the current state.
Rendered ==
  SplitNarration(streamingNarration, audioAlignment,
                 spokenCharacterCount(audioAlignment, audioPlaybackTime))

\* The continuation_complete listener (tv/[gameId].tsx, lines 225-229); the
\* server writes the event once, before any audio_chunk.
ContinuationCompleteEvent ==
  /\ sourceState = "streaming"
  /\ streamingNarration = <<>> /\ delivered = 0
  /\ streamingNarration' \in NarrationTexts
  /\ UNCHANGED <<audioAlignment, delivered, bufferVars, turnVars, audioPlaybackTime,
                 serverVars, gameStoreVars>>

AudioChunkSpoken == AudioChunkListener(OverlaySlices)

OverlayNext ==
  \/ ContinuationCompleteEvent
  \/ AudioChunkSpoken
  \/ SourceOpen
  \/ UpdateEnd
  \/ PlaybackAdvance
  \/ AnimationFrame

OverlaySpec == PlaybackInit /\ [][OverlayNext]_vars

\* C31: without alignment data or at playback time 0 the spoken character
\* count is 0, the spoken text is empty and the whole narration is unspoken;
\* when the alignment characters are not a prefix of the narration, the
\* spoken text is the first count raw characters of the narration and the
\* unspoken text is the rest.
C31_HighlightFallback ==
  LET count == spokenCharacterCount(audioAlignment, audioPlaybackTime)
  IN  /\ (audioAlignment = NullAlignment \/ audioPlaybackTime = 0) =>
           /\ count = 0
           /\ Rendered.spokenText = <<>>
           /\ Rendered.unspokenText = streamingNarration
      /\ (count > 0 /\ ~StartsWith(streamingNarration, audioAlignment.characters)) =>
           /\ Rendered.spokenText \o Rendered.unspokenText = streamingNarration
           /\ Len(Rendered.spokenText) = Min(count, Len(streamingNarration))

\* Characters were spoken whose alignment is not a prefix of the narration.
C31_Witness ==
  /\ spokenCharacterCount(audioAlignment, audioPlaybackTime) > 0
  /\ streamingNarration # <<>>
  /\ ~StartsWith(streamingNarration, audioAlignment.characters)
  /\ Rendered.spokenText # <<>>
  /\ Rendered.spokenText # SubSeq(audioAlignment.characters, 1, Len(Rendered.spokenText))


(***************************************************************************)
(* The game store (src/lib/gameStore.ts): createGame, appendTurnToGame,    *)
(* addPlayerToGame and startGame called concurrently.  Every await on      *)
(* Redis is a step of its own; a game, a turn and a player are named by    *)
(* the call that made them.                                                *)
(***************************************************************************)
\* Line 77: the number of codes createGame tries before it takes one
\* unchecked.
MaxAttempts == 10

\* persistGame (lines 32-35): SET of the whole game under its key.
persistGame(value, gameId) == redis' = [redis EXCEPT ![gameId] = value]

Settle(o, outcome) == calls' = [calls EXCEPT ![o].pc = outcome]

\* createGame is called (lines 73-76): the first code is generated.
CallCreateGame(o) ==
  /\ calls[o].pc = "idle"
  /\ \E code \in GameCodes :
       calls' = [calls EXCEPT ![o] = [IdleCall EXCEPT !.kind = "create", !.pc = "exists",
                                                       !.gameId = code]]
  /\ UNCHANGED <<redis, serverVars, clientVars>>

\* One turn of the loop of lines 77-84: EXISTS on the current code; a free
\* code ends the loop, a used one is replaced by a new code, and after
\* MaxAttempts replacements the loop ends with the last code, unchecked.
CreateExists(o) ==
  /\ calls[o].kind = "create" /\ calls[o].pc = "exists"
  /\ IF ~redis[calls[o].gameId].exists
     THEN Settle(o, "persist")
     ELSE \E code \in GameCodes :
            calls' = [calls EXCEPT ![o].gameId = code,
                                   ![o].attempts = @ + 1,
                                   ![o].pc = IF calls[o].attempts + 1 < MaxAttempts
                                             THEN "exists" ELSE "persist"]
  /\ UNCHANGED <<redis, serverVars, clientVars>>

\* Lines 86-96: the new game is written under the code.
CreatePersist(o) ==
  /\ calls[o].kind = "create" /\ calls[o].pc = "persist"
  /\ persistGame([exists |-> TRUE, creator |-> o, status |-> "lobby",
                  players |-> <<>>, turns |-> <<>>], calls[o].gameId)
  /\ Settle(o, "done")
  /\ UNCHANGED <<serverVars, clientVars>>

\* getGame at the head of appendTurnToGame, addPlayerToGame and startGame
\* (lines 103-106, 131-134, 153-156): the stored game is read into the
\* call, or the call throws "Game not found".
GetGame(o, kind) ==
  /\ calls[o].pc = "idle"
  /\ \E code \in GameCodes :
       calls' = [calls EXCEPT ![o] =
                   [kind |-> kind,
                    pc |-> IF redis[code].exists THEN "persist" ELSE "failed",
                    gameId |-> code, attempts |-> 0, game |-> redis[code]]]
  /\ UNCHANGED <<redis, serverVars, clientVars>>

AppendTurnGet(o) == GetGame(o, "append")

\* Lines 108-118: the turn is added to the copy read before, and the copy
\* is written back.
AppendTurnPersist(o) ==
  /\ calls[o].kind = "append" /\ calls[o].pc = "persist"
  /\ persistGame([calls[o].game EXCEPT !.turns = Append(@, o)], calls[o].gameId)
  /\ Settle(o, "done")
  /\ UNCHANGED <<serverVars, clientVars>>

AddPlayerGet(o) == GetGame(o, "addPlayer")

\* Lines 136-149: after the avatar upload the player is added to the copy
\* read before, and the copy is written back.
AddPlayerPersist(o) ==
  /\ calls[o].kind = "addPlayer" /\ calls[o].pc = "persist"
  /\ persistGame([calls[o].game EXCEPT !.players = Append(@, o)], calls[o].gameId)
  /\ Settle(o, "done")
  /\ UNCHANGED <<serverVars, clientVars>>

StartGameGet(o) == GetGame(o, "start")

\* Lines 158-160.
StartGamePersist(o) ==
  /\ calls[o].kind = "start" /\ calls[o].pc = "persist"
  /\ persistGame([calls[o].game EXCEPT !.status = "in-progress"], calls[o].gameId)
  /\ Settle(o, "done")
  /\ UNCHANGED <<serverVars, clientVars>>

GameStoreNext ==
  \E o \in CallIds :
    \/ CallCreateGame(o)
    \/ CreateExists(o)
    \/ CreatePersist(o)
    \/ AppendTurnGet(o)
    \/ AppendTurnPersist(o)
    \/ AddPlayerGet(o)
    \/ AddPlayerPersist(o)
    \/ StartGameGet(o)
    \/ StartGamePersist(o)

GameStoreSpec == PlaybackInit /\ [][GameStoreNext]_vars

\* C32: createGame never writes a game under a code that an existing game
\* uses: no step replaces a stored game by the game of another createGame
\* call.
C32_CreateNeverOverwrites ==
  [][\A code \in GameCodes :
       redis[code].exists => redis'[code].creator = redis[code].creator]_vars

\* A stored game with a player in its roster.
C32_GameInUse ==
  \E code \in GameCodes : redis[code].exists /\ redis[code].players # <<>>


\* A createGame call left its loop after MaxAttempts used codes and is about
\* to write under a code that a game uses.
C32_CodesExhausted ==
  \E o \in CallIds :
    /\ calls[o].pc = "persist" /\ calls[o].attempts = MaxAttempts
    /\ redis[calls[o].gameId].exists


\* Every turn and every player of the first sequence is in the second.
KeepsAll(before, after) ==
  \A i \in DOMAIN before : \E j \in DOMAIN after : after[j] = before[i]

\* C37: the stored history is append-only under interleaving: a turn stored
\* by appendTurnToGame is in every later stored state of its game and a
\* player stored by addPlayerToGame stays in the roster, whatever the
\* interleaving of appendTurnToGame, addPlayerToGame and startGame (steps in
\* which createGame replaces the game are left aside).
C37_HistoryAppendOnly ==
  [][\A code \in GameCodes :
       (redis[code].exists /\ redis'[code].creator = redis[code].creator) =>
         /\ KeepsAll(redis[code].turns, redis'[code].turns)
         /\ KeepsAll(redis[code].players, redis'[code].players)]_vars

\* A write of appendTurnToGame, addPlayerToGame or startGame whose copy is
\* still the stored game keeps every stored turn and player.
C37_FreshCopyKeepsAll ==
  [][\A o \in CallIds :
       (calls[o].kind \in {"append", "addPlayer", "start"}
          /\ calls[o].pc = "persist" /\ calls'[o].pc = "done"
          /\ calls[o].game = redis[calls[o].gameId]) =>
         /\ KeepsAll(redis[calls[o].gameId].turns, redis'[calls[o].gameId].turns)
         /\ KeepsAll(redis[calls[o].gameId].players, redis'[calls[o].gameId].players)]_vars

\* A call is about to write back a copy of the game that is older than the
\* stored one.
C37_StaleCopy ==
  \E o \in CallIds :
    /\ calls[o].pc = "persist" /\ calls[o].kind # "create"
    /\ redis[calls[o].gameId].creator = calls[o].game.creator
    /\ \/ Len(redis[calls[o].gameId].turns) > Len(calls[o].game.turns)
       \/ Len(redis[calls[o].gameId].players) > Len(calls[o].game.players)


(***************************************************************************)
(* getTagSegment character by character (stream.ts, lines 37-58): the      *)
(* indices are found in the lower-cased copy of the buffer and used on the *)
(* buffer itself.  Positions are JavaScript's: the first character is at   *)
(* 0 and -1 means not found.  The tag is the one-letter tag "t".           *)
(***************************************************************************)
MaxPieces == 4

\* String.prototype.toLowerCase: one character at a time; the capital I
\* with a dot above (U+0130) becomes two characters, i and a combining dot.
LowerOf(c) ==
  IF c = "T" THEN <<"t">>
  ELSE IF c = "I_dot" THEN <<"i", "dot">>
  ELSE <<c>>

RECURSIVE toLowerCase(_)
toLowerCase(s) ==
  IF s = <<>> THEN <<>> ELSE LowerOf(Head(s)) \o toLowerCase(Tail(s))

\* s has sub at position p.
HasAt(s, sub, p) ==
  /\ p >= 0 /\ p + Len(sub) <= Len(s)
  /\ \A k \in 1..Len(sub) : s[p + k] = sub[k]

\* String.prototype.indexOf(sub, from).
indexOf(s, sub, from) ==
  LET hits == {p \in from..Len(s) : HasAt(s, sub, p)}
  IN IF hits = {} THEN -1 ELSE CHOOSE p \in hits : \A q \in hits : p <= q

\* getTagSegment for the tag "t"; found = FALSE stands for null.
getTagSegmentChars(source) ==
  LET lower == toLowerCase(source)
      open == indexOf(lower, <<"<", "t">>, 0)
      openEnd == IF open = -1 THEN -1 ELSE indexOf(source, <<">">>, open)
      close == IF openEnd = -1 THEN -1
               ELSE indexOf(lower, <<"<", "/", "t", ">">>, openEnd + 1)
  IN IF open = -1 \/ openEnd = -1 THEN NoSegment
     ELSE IF close = -1
     THEN [found |-> TRUE, content |-> StringSlice(source, openEnd + 1, Len(source)),
           closed |-> FALSE]
     ELSE [found |-> TRUE, content |-> StringSlice(source, openEnd + 1, close),
           closed |-> TRUE]

\* The pieces a buffer is made of: text, tags in either case, a tag cut
\* before its ">", a lone ">".
BufferPieces ==
  {<<"x">>, <<"I_dot">>, <<">">>, <<"<", "t">>, <<"<", "t", ">">>, <<"<", "T", ">">>,
   <<"<", "/", "t", ">">>, <<"<", "/", "T", ">">>}

SegmentInit ==
  /\ pc = "segmenting"
  /\ httpStatus = 0
  /\ stored = NoGame
  /\ game = NoGame
  /\ upstream \in [1..MaxPieces -> BufferPieces]
  /\ rawBuffer = <<>>
  /\ imagePrompt = <<>>
  /\ imageTask = "null"
  /\ imagePartials = 0
  /\ finalImage = ""
  /\ parsedTurn = NoParsedTurn
  /\ audioTask = "null"
  /\ audioChunks = 0
  /\ audioText = <<>>
  /\ imageUrl = ""
  /\ requests = <<>>
  /\ responses = NoResponses
  /\ loops = <<>>
  /\ mailbox = <<>>
  /\ submits = 0
  /\ appendGame = NoGame
  /\ events = <<>>
  /\ lateWrites = <<>>
  /\ ended = FALSE
  /\ aborted = FALSE
  /\ caught = "none"
  /\ ClientInit
  /\ GameStoreIdle

\* Lines 303-307 with the character-level getTagSegment: rawBuffer += chunk,
\* and the content of a closed segment is kept as the image prompt (before
\* stripCdata and trim, which leave these characters as they are).
SegmentChunk ==
  /\ pc = "segmenting" /\ upstream # <<>>
  /\ LET buffer == rawBuffer \o Head(upstream)
         promptSegment == getTagSegmentChars(buffer)
     IN /\ rawBuffer' = buffer
        /\ upstream' = Tail(upstream)
        /\ imagePrompt' = IF imagePrompt = <<>> /\ promptSegment.closed
                          THEN promptSegment.content
                          ELSE imagePrompt
  /\ UNCHANGED <<pc, startVars, parsedTurn, imageVars, audioVars, imageUrl, requestVars,
                 mailbox, submits, storeVars, events, lateWrites, ended, aborted, caught>>
  /\ UNCHANGED <<clientVars, gameStoreVars>>

SegmentNext == SegmentChunk

SegmentSpec == SegmentInit /\ [][SegmentNext]_vars

\* The same character without regard to case.
SameLetter(c, d) == c = d \/ (c = "T" /\ d = "t")

\* The buffer has the marker at position p, in either case.
MarkerAt(s, marker, p) ==
  /\ p >= 0 /\ p + Len(marker) <= Len(s)
  /\ \A k \in 1..Len(marker) : SameLetter(s[p + k], marker[k])

\* The first position from `from` on where the buffer has the marker (-1:
\* none), found in the buffer itself.
FirstMarker(s, marker, from) ==
  LET hits == {p \in from..Len(s) : MarkerAt(s, marker, p)}
  IN IF hits = {} THEN -1 ELSE CHOOSE p \in hits : \A q \in hits : p <= q

\* C33: getTagSegment returns null when the buffer has no opening tag in
\* either case; with an opening tag and its ">" but no closing marker after
\* it, closed = false and the content is the rest of the buffer after that
\* ">"; with a closing marker after it, closed = true and the content is
\* exactly the text between that ">" and the first closing marker.
C33_SegmentContents ==
  LET open == FirstMarker(rawBuffer, <<"<", "t">>, 0)
      openEnd == IF open = -1 THEN -1 ELSE FirstMarker(rawBuffer, <<">">>, open)
      close == IF openEnd = -1 THEN -1
               ELSE FirstMarker(rawBuffer, <<"<", "/", "t", ">">>, openEnd + 1)
      segment == getTagSegmentChars(rawBuffer)
  IN  /\ open = -1 => ~segment.found
      /\ (openEnd # -1 /\ close = -1) =>
           /\ segment.found /\ ~segment.closed
           /\ segment.content = SubSeq(rawBuffer, openEnd + 2, Len(rawBuffer))
      /\ close # -1 =>
           /\ segment.found /\ segment.closed
           /\ segment.content = SubSeq(rawBuffer, openEnd + 2, close)

\* The claim for the buffers whose lower-cased copy has their length.
C33_SameLengthBuffers ==
  Len(toLowerCase(rawBuffer)) = Len(rawBuffer) => C33_SegmentContents

\* A closed segment in a buffer that holds a character whose lower case is
\* longer.
C33_LongerLowerCase ==
  /\ Len(toLowerCase(rawBuffer)) > Len(rawBuffer)
  /\ getTagSegmentChars(rawBuffer).closed


(***************************************************************************)
(* The late start of the image adapter (stream.ts lines 263-267, 364-368)  *)
(***************************************************************************)
\* The handler launches the image adapter in this step.
ImageLaunched == imageTask = "null" /\ imageTask' # "null"

\* C34: when the narration ends with no image task launched and the final
\* parse has an image prompt, the image adapter is launched in that step and
\* image_prompt written with the parsed prompt; a turn is written to the store
\* only after a launched task has fulfilled; the adapter is launched at most
\* once (a launched task is never replaced) and image_prompt is written only
\* by a launch, so at most once.
C34_LateStartFallback ==
  [][/\ pc = "narrating" /\ pc' = "join" /\ imageTask = "null"
        /\ parsedTurn'.imagePrompt # <<>> =>
          /\ imageTask' = "pending"
          /\ imagePrompt' = parsedTurn'.imagePrompt
          /\ EventsOf("image_prompt")' =
               <<[type |-> "image_prompt", prompt |-> parsedTurn'.imagePrompt]>>
     /\ Len(stored'.turns) > Len(stored.turns) =>
          /\ imageTask \in {"null", "fulfilled"}
          /\ HasEvent("image_prompt") => imageTask = "fulfilled"
     /\ imageTask # "null" => imageTask' # "null"
     /\ imageTask = "null" => ~Sent("image_prompt")
     /\ ~ImageLaunched => EventsOf("image_prompt")' = EventsOf("image_prompt")
     /\ Len(EventsOf("image_prompt"))' <= 1]_vars

\* A turn whose image prompt was found by the final parse only has been
\* persisted with its image.
C34_Witness ==
  /\ rawBuffer = DocLateImage /\ imageTask = "fulfilled"
  /\ Len(EventsOf("image_prompt")) = 1
  /\ HasEvent("turn_complete") /\ LastTurn.image # ""


(***************************************************************************)
(* Writes after the channel is closed (stream.ts lines 263-293, 332-362,   *)
(* 467-480)                                                                *)
(***************************************************************************)
\* C35: no sendEvent is made after res.end(): no adapter callback and no
\* completion handler of a detached task writes once the channel is closed.
C35_NoWriteAfterClose == lateWrites = <<>>

\* The narration failed after the image adapter was launched, the channel was
\* closed, and the image task, still in flight, then delivered a preview.
C35_ImageWritesAfterClose ==
  /\ ended /\ caught = "text" /\ HasEvent("image_prompt")
  /\ "image_partial" \in Range(lateWrites)

\* The image task failed while the speech adapter was streaming, the channel
\* was closed, and the speech task then delivered a chunk.
C35_SpeechWritesAfterClose ==
  /\ ended /\ caught = "image" /\ "audio_chunk" \in Range(lateWrites)


(***************************************************************************)
(* turn_error on the channel (stream.ts lines 288-292, 467-474)            *)
(***************************************************************************)
\* C36: the channel carries at most one turn_error, and no continuation,
\* image, audio, request or turn_complete event follows it.
C36_SingleFinalTurnError ==
  /\ Len(EventsOf("turn_error")) <= 1
  /\ \A i \in DOMAIN events :
       events[i].type = "turn_error" =>
         \A j \in (i + 1)..Len(events) :
           events[j].type \notin TurnScoped \cup {"turn_complete"}

\* The image task failed while the narration was being consumed: its
\* turn_error is followed by the narration's continuation_complete.
C36_ErrorThenNarration ==
  /\ HasEvent("turn_error") /\ HasEvent("continuation_complete")
  /\ FirstIndex("turn_error") < FirstIndex("continuation_complete")

\* The failure of the image task was reported by the task's catch handler and
\* again by the handler's catch block.
C36_ErrorReportedTwice ==
  caught = "image" /\ Len(EventsOf("turn_error")) = 2 /\ ~ended


(***************************************************************************)
(* Who answers a targeted request (respond endpoint lines 27-51,           *)
(* requestStore.ts lines 50-67, 105-128)                                   *)
(***************************************************************************)
Targeted(i) == requests[i].type \in {"free_text", "yes_no"}

\* C38: for a free_text or yes_no request, the responses in the mailbox, the
\* responses a loop has collected, the request_response events and the
\* responses of requests_complete come from the request's target player only.
C38_TargetOnlyResponses ==
  \A i \in DOMAIN requests :
    Targeted(i) =>
      /\ i \in DOMAIN mailbox =>
           PlayersOf(mailbox[i]) \subseteq Range(requests[i].targetPlayers)
      /\ i \in DOMAIN loops =>
           PlayersOf(loops[i].collected) \subseteq Range(requests[i].targetPlayers)
      /\ \A k \in DOMAIN events :
           events[k].type = "request_response" /\ events[k].requestId = requests[i].id =>
             events[k].playerId \in Range(requests[i].targetPlayers)
      /\ responses.defined =>
           PlayersOf(responses.map[i]) \subseteq Range(requests[i].targetPlayers)

\* The answer of a player who is not the target of a yes_no request was
\* reported by request_response and persisted with the turn.
C38_OtherPlayerAnswerPersisted ==
  /\ HasEvent("turn_complete") /\ requests # <<>> /\ responses.defined
  /\ \E i \in DOMAIN requests :
       /\ Targeted(i)
       /\ \E p \in PlayersOf(responses.map[i]) : p \notin Range(requests[i].targetPlayers)
       /\ \E k \in DOMAIN events :
            /\ events[k].type = "request_response" /\ events[k].requestId = requests[i].id
            /\ events[k].playerId \notin Range(requests[i].targetPlayers)


(***************************************************************************)
(* The audio queue and the media buffer (tv/[gameId].tsx lines 256-329,    *)
(* 372-450)                                                                *)
(***************************************************************************)
\* The media buffer holds the chunk the i-th audio_chunk event carried.
Held(i) == \E k \in DOMAIN sourceBuffer.held : sourceBuffer.held[k].index = i

\* C39: every audio chunk the page has received is eventually appended to
\* the media buffer, whatever the order of the audio_chunk, sourceopen and
\* updateend events.
C39_EveryChunkAppended ==
  \A i \in 0..(MaxDelivered - 1) : (delivered > i) ~> Held(i)

\* The buffer exists, is idle and empty, the queue is not empty, and the
\* stream has no audio_chunk event left that would pump the queue.
LeftBehind ==
  /\ sourceBuffer.exists /\ ~sourceBuffer.updating /\ sourceBuffer.held = <<>>
  /\ audioChunksQueue # <<>>
  /\ sourceState # "streaming" /\ mediaSource = "open" /\ ~retryPending

\* All chunks and audio_complete arrived before sourceopen and no error was
\* reported: the chunks are left in the queue.
C39_QueueLeftBehind ==
  LeftBehind /\ sourceState = "audio_over" /\ engineError = "null"

\* From such a state on the queue stays as it is and the stream is not ended.
C39_LeftBehindForever == [][LeftBehind => LeftBehind']_vars

\* The chunks the buffer holds are in arrival order.
C39_ArrivalOrder ==
  \A j, k \in DOMAIN sourceBuffer.held :
    j < k => /\ sourceBuffer.held[j].index < sourceBuffer.held[k].index
             /\ sourceBuffer.held[j].slot < sourceBuffer.held[k].slot


(***************************************************************************)
(* The prompt the image adapter is launched with and the prompt persisted  *)
(* with the turn (stream.ts lines 28-60, 302-314, 449-455)                 *)
(***************************************************************************)
\* An image_prompt element before the <turn> envelope.
DocPromptOutside ==
  <<"<image_prompt>", "b", "</image_prompt>",
    "<turn>", "<continuation>", "a", "</continuation>", "</turn>">>
\* One image_prompt element before the envelope and another one inside it.
DocTwoPrompts ==
  <<"<image_prompt>", "b", "</image_prompt>",
    "<turn>", "<continuation>", "a", "</continuation>",
    "<image_prompt>", "c", "</image_prompt>", "</turn>">>
\* A prompt in a CDATA wrapper, on one line and on two lines.
DocPromptCdata ==
  <<"<turn>", "<continuation>", "a", "</continuation>",
    "<image_prompt>", CdataOpen, "b", CdataClose, "</image_prompt>", "</turn>">>
DocPromptLines ==
  <<"<turn>", "<continuation>", "a", "</continuation>",
    "<image_prompt>", CdataOpen, "b", Newline, "c", CdataClose, "</image_prompt>", "</turn>">>

PromptDocs ==
  {DocPlain, DocImage, DocLateImage, DocPromptOutside, DocTwoPrompts, DocPromptCdata,
   DocPromptLines}

\* The handler run on one of these narrations.
PromptInit ==
  /\ pc = "init"
  /\ httpStatus = 0
  /\ stored \in StoredGames
  /\ game = NoGame
  /\ upstream \in PromptDocs
  /\ rawBuffer = <<>>
  /\ imagePrompt = <<>>
  /\ imageTask = "null"
  /\ imagePartials = 0
  /\ finalImage = ""
  /\ parsedTurn = NoParsedTurn
  /\ audioTask = "null"
  /\ audioChunks = 0
  /\ audioText = <<>>
  /\ imageUrl = ""
  /\ requests = <<>>
  /\ responses = NoResponses
  /\ loops = <<>>
  /\ mailbox = <<>>
  /\ submits = 0
  /\ appendGame = NoGame
  /\ events = <<>>
  /\ lateWrites = <<>>
  /\ ended = FALSE
  /\ aborted = FALSE
  /\ caught = "none"
  /\ ClientInit
  /\ GameStoreIdle

PromptSpec == PromptInit /\ [][NextArtifacts]_vars

\* The prompt the image adapter was launched with.
LaunchedPrompt == EventsOf("image_prompt")[1].prompt

\* C40: in a run that persisted its turn, the prompt the image adapter was
\* launched with is the imagePrompt of the persisted turn, and a persisted
\* turn with an image has an imagePrompt.
C40_LaunchPromptPersisted ==
  HasEvent("turn_complete") =>
    /\ HasEvent("image_prompt") => LaunchedPrompt = LastTurn.imagePrompt
    /\ LastTurn.image # "" => LastTurn.imagePrompt # <<>>

\* The same for the narrations whose image_prompt element is inside the
\* envelope, is the only non-empty one and has no CDATA wrapper that spans
\* lines.
C40_PromptInsideEnvelope ==
  HasEvent("turn_complete") /\ rawBuffer \in {DocImage, DocLateImage, DocPromptCdata} =>
    /\ HasEvent("image_prompt") /\ LaunchedPrompt = LastTurn.imagePrompt
    /\ LastTurn.imagePrompt = <<"b">>

\* A turn persisted with an image and without an imagePrompt: the prompt was
\* found before the envelope.
C40_ImageWithoutPrompt ==
  /\ HasEvent("turn_complete") /\ rawBuffer = DocPromptOutside
  /\ LastTurn.image # "" /\ LastTurn.imagePrompt = <<>>
  /\ LaunchedPrompt = <<"b">>

\* A turn persisted with the wrapper still in its imagePrompt, the adapter
\* having been launched with the unwrapped prompt.
C40_WrapperPersisted ==
  /\ HasEvent("turn_complete") /\ rawBuffer = DocPromptLines
  /\ LaunchedPrompt = <<"b", Newline, "c">>
  /\ LastTurn.imagePrompt = <<CdataOpen, "b", Newline, "c", CdataClose>>

====
